---- MODULE Spec2Model ----
(***************************************************************************)
(* Real-time event distribution layer of pheineke/chatter:                 *)
(*   backend/app/ws_manager.py     ConnectionManager (rooms, broadcast)    *)
(*   backend/app/voice_manager.py  VoiceManager (voice participants)       *)
(*   backend/app/routers/ws.py     channel_ws, server_ws, personal_ws,     *)
(*                                 bot_gateway_ws                          *)
(*   backend/app/routers/voice.py  voice_ws                                *)
(*   backend/app/routers/users.py  update_me                               *)
(*   backend/app/presence.py       broadcast_presence                      *)
(*                                                                         *)
(* Every connection handler, every HTTP request and every caller of a      *)
(* broadcast is an asyncio task.  A task runs without interruption until   *)
(* it awaits I/O (accept, send, receive, database); `running` names the    *)
(* task that holds the event loop, NoTask when every task is suspended.    *)
(* A task's pc names the statement it is at; the pcs of YieldPcs are the   *)
(* awaits at which it is suspended.                                        *)
(***************************************************************************)
EXTENDS Integers, Sequences, FiniteSets, TLC

\* ---- bounds -------------------------------------------------------------
NumTasks == 3        \* tasks (connections, requests, broadcast callers)
MaxMsgs == 1         \* inbound messages a handler receives before it ends
NumServers == 1      \* servers a user may belong to

NoTask == 0
Tasks == 1..NumTasks
Users == {1, 2}
Servers == 1..NumServers
Channels == {1}

\* models.user.UserStatus
UserStatus == {"online", "away", "dnd", "offline"}
\* the status values requests and stored rows are drawn from
StatusInputs == {"online", "away", "offline"}

VARIABLES
    kind,       \* task -> which coroutine the task runs
    uid,        \* task -> authenticated user of the task
    trooms,     \* task -> rooms the handler registers in (ws.py `room` / `rooms`)
    pc,         \* task -> statement the task is at
    running,    \* task holding the event loop, or NoTask
    exc,        \* task -> an exception is propagating through its finally block
    ci,         \* task -> index of the room being connected/disconnected (bot loops)
    nmsg,       \* task -> inbound messages received so far
    rooms,      \* ConnectionManager._rooms : room key -> set of connections
    lock,       \* ConnectionManager._lock : holder or NoTask
    open,       \* connection -> the client has not closed the transport
    accepted,   \* connection -> ws.accept() has completed
    inbox,      \* connection -> payloads delivered to the client, in order
    bc,         \* task -> locals of the broadcast call it is executing
    ndisc,      \* task -> completed manager.disconnect calls made by the handler itself
    reg,        \* task -> rooms in which the handler's manager.connect completed
    status,     \* users.status (stored, visible status)
    preferred,  \* users.preferred_status
    hide,       \* users.hide_status
    row,        \* task -> the User row its database session loaded
    vrooms,     \* VoiceManager._rooms : channel -> (user -> participant)
    vlock,      \* VoiceManager._lock : holder or NoTask
    vdisc,      \* task -> completed voice_manager.disconnect calls of the task
    part,       \* participant object (named by its connection) -> its flags
    hist        \* history: what was broadcast, and what each task saw and did

vars == <<kind, uid, trooms, pc, running, exc, ci, nmsg, rooms, lock, open,
          accepted, inbox, bc, ndisc, reg, status, preferred, hide, row,
          vrooms, vlock, vdisc, part, hist>>

\* ---- dictionaries --------------------------------------------------------
EmptyDict == [x \in {} |-> {}]
Get(f, k, d) == IF k \in DOMAIN f THEN f[k] ELSE d
Put(f, k, v) == [x \in (DOMAIN f) \cup {k} |-> IF x = k THEN v ELSE f[x]]
Del(f, k) == [x \in (DOMAIN f) \ {k} |-> f[x]]

\* ---- room taxonomy (ws_manager.py) ---------------------------------------
channel_room(c) == <<"channel", c>>
server_room(s) == <<"server", s>>
user_room(u) == <<"user", u>>

\* ---- events and their serialisation --------------------------------------
Ev(type, src, user, val, data) ==
    [type |-> type, src |-> src, user |-> user, val |-> val, data |-> data]
NoEv == Ev("none", 0, 0, "", {})
\* json.dumps(event, default=str): the payload is the text of the event, a value
\* distinct from the event itself
Dumps(e) == <<"json", e>>
PongText == Dumps(Ev("pong", 0, 0, "", {}))

\* ---- static collaborators (database rows that no modelled code writes) ----
\* ServerMember rows: user 1 belongs to every server, user 2 to none
MemberOf(u) == IF u = 1 THEN Servers ELSE {}
\* Channel rows: every text channel belongs to server 1
ChannelServer(c) == 1
\* accepted FriendRequest rows: users 1 and 2 are friends
FriendsOf(u) == Users \ {u}

\* ---- task kinds ------------------------------------------------------------
WsKinds == {"channel", "server", "personal", "bot"}
VoiceKinds == {"voice_ws", "vcaller"}
Ended == {"done", "crashed"}
\* the awaits at which a task is suspended (and the two ends of a task)
YieldPcs == {"c_accept", "recv", "ty_db", "pong", "b_send", "p_get", "p_commit",
             "p_off_get", "p_off_commit", "bp_servers", "bp_friends",
             "u_load", "u_commit", "u_refresh", "call",
             "vc_accept", "vc_members", "vb_send", "v_in", "m_in", "auth", "check", "l_in",
             "done", "crashed"}

\* the rooms a handler registers in (ws.py:96, 167, 208, 290-292)
RoomsOf(k, u) ==
    CASE k = "channel" -> << channel_room(1) >>
      [] k = "server" -> << server_room(1) >>
      [] k = "personal" -> << user_room(u) >>
      [] k = "bot" -> << user_room(u) >> \o [i \in 1..Cardinality(MemberOf(u)) |-> server_room(i)]
      [] k \in VoiceKinds -> << <<"voice", 1>> >>
      [] OTHER -> << >>

FirstPc(k) ==
    CASE k \in WsKinds -> "c_accept"
      [] k \in VoiceKinds -> "vc_accept"
      [] k = "update" -> "u_load"
      [] k \in {"bcast", "bcast2"} -> "call"
      [] k = "mcaller" -> "m_in"
      [] k = "reader" -> "l_in"
      [] OTHER -> "done"

NoBc == [calls |-> << >>, rms |-> << >>, room |-> << >>, snap |-> {}, cur |-> NoTask,
         excl |-> NoTask, ev |-> NoEv, pay |-> Dumps(NoEv), dead |-> << >>, nser |-> 0,
         ret |-> "done", pstatus |-> "", pret |-> "done",
         mem0 |-> {}, tried |-> {}, ok |-> {}, failed |-> {}, stale |-> {}]
\* nothing has happened yet.  sent: how many times each user.status_changed
\* call was made, by <<continuation of the caller, room, event>>; how: the way
\* a handler left its receive loop; seen: what personal_ws read at ws.py:251;
\* read: the status its finally block loaded; vcall: the last VoiceManager
\* call of a task (snap: the participants it found, tgt: the participant it
\* looked up, to and arg: its arguments); mcall: the last ConnectionManager
\* call of a direct caller (was: the connection was in the room before it);
\* first: the members of the room when the first of two calls in sequence
\* copied it; code: the code a handler passed to ws.close before connecting;
\* loop: the last text a receive loop got (h: the handler, raw: the text) and
\* what its body did with it
NoVCall == [op |-> "", id |-> "", snap |-> {}, tgt |-> NoTask, to |-> 0,
            arg |-> [x \in {} |-> FALSE]]
NoOut == [act |-> "", to |-> 0, flag |-> "", val |-> FALSE]
NoRaw == [json |-> "", type |-> "", to |-> "", field |-> "", val |-> ""]
NoLoop == [h |-> "", raw |-> NoRaw, out |-> NoOut]
NoMCall == [op |-> "", room |-> << >>, ws |-> NoTask, was |-> FALSE]
NoHist == [sent |-> [x \in {} |-> 0],
           how |-> [t \in Tasks |-> ""],
           seen |-> [t \in Tasks |-> ""],
           read |-> [t \in Tasks |-> ""],
           vcall |-> [t \in Tasks |-> NoVCall],
           mcall |-> [t \in Tasks |-> NoMCall],
           first |-> [t \in Tasks |-> {}],
           code |-> [t \in Tasks |-> 0],
           loop |-> [t \in Tasks |-> NoLoop]]
NoRow == [status |-> "offline", preferred |-> "offline", hide |-> FALSE,
          body |-> "offline", changed |-> FALSE]

\* the transport of c still carries data: the client has not closed it, the
\* handshake is done and the handler serving it has not returned
Live(c) == open[c] /\ accepted[c]

\* t holds the event loop, or nobody does and t's await can complete
Turn(t) == running \in {NoTask, t}

\* t moves to statement p; at an await it gives up the event loop; when a
\* connection handler ends the server closes its transport
Go(t, p) ==
    /\ pc' = [pc EXCEPT ![t] = p]
    /\ running' = IF p \in YieldPcs THEN NoTask ELSE t
    /\ open' = IF p \in Ended /\ kind[t] \in WsKinds \cup {"voice_ws"}
               THEN [open EXCEPT ![t] = FALSE] ELSE open

cfg == <<kind, uid, trooms>>
db == <<status, preferred, hide>>
voice == <<vrooms, vlock, vdisc, part>>

\* pc a handler ends at: the exception that unwound it propagates, or it returns
EndPc(e) == IF e THEN "crashed" ELSE "done"

\* ---- ConnectionManager (ws_manager.py) --------------------------------------
\* self._rooms[room].add(ws) on the defaultdict(set)
Join(rs, r, w) == Put(rs, r, Get(rs, r, {}) \cup {w})

\* a disconnect that forgets `del self._rooms[room]`
LeaveKeepEmpty(rs, r, w) == Put(rs, r, Get(rs, r, {}) \ {w})

\* self._rooms[room].discard(ws); if not self._rooms[room]: del self._rooms[room]
Leave(rs, r, w) ==
    LET m == Get(rs, r, {}) \ {w}
    IN IF m = {} THEN Del(rs, r) ELSE Put(rs, r, m)

\* a snapshot that reads every room of the registry
SnapshotAnyRoom(rs, r) == UNION {rs[k] : k \in DOMAIN rs}

\* list(self._rooms.get(room, [])): a copy, taken without the lock
Snapshot(rs, r) == Get(rs, r, {})

\* a fan-out loop that serialises the event again for every recipient
LoopPayloadPerSend(b) == [pay |-> Dumps(b.ev), nser |-> b.nser + 1]

\* the text handed to ws.send_text inside the fan-out loop and the number of
\* json.dumps calls made so far: the loop reuses `payload`
LoopPayload(b) == [pay |-> b.pay, nser |-> b.nser]

\* ConnectionManager.connect, line 34: await ws.accept().  The handshake
\* fails when the client is gone, and a second accept on an accepted
\* transport raises; every handler calls connect outside its try block.
Accept(t) ==
    /\ pc[t] = "c_accept" /\ Turn(t)
    /\ IF open[t] /\ ~accepted[t]
       THEN accepted' = [accepted EXCEPT ![t] = TRUE] /\ Go(t, "c_lock")
       ELSE accepted' = accepted /\ Go(t, "crashed")
    /\ UNCHANGED <<cfg, hist, exc, ci, nmsg, rooms, lock, inbox, bc, ndisc, reg, db, row, voice>>

\* connect, line 35: async with self._lock
CLock(t) ==
    /\ pc[t] = "c_lock" /\ Turn(t) /\ lock = NoTask
    /\ lock' = t
    /\ Go(t, "c_add")
    /\ UNCHANGED <<cfg, hist, exc, ci, nmsg, rooms, accepted, inbox, bc, ndisc, reg, db, row, voice>>

\* where a handler continues after manager.connect returned
AfterConnect(t) ==
    CASE kind[t] = "personal" -> "p_get"
      [] kind[t] = "bot" /\ ci[t] < Len(trooms[t]) -> "c_accept"
      [] OTHER -> "recv"

\* connect, line 36: the insert, and the release of the lock
CAdd(t) ==
    /\ pc[t] = "c_add" /\ Turn(t)
    /\ rooms' = Join(rooms, trooms[t][ci[t]], t)
    /\ lock' = NoTask
    /\ reg' = [reg EXCEPT ![t] = @ \cup {trooms[t][ci[t]]}]
    /\ ci' = [ci EXCEPT ![t] = IF kind[t] = "bot" /\ @ < Len(trooms[t]) THEN @ + 1 ELSE 1]
    /\ Go(t, AfterConnect(t))
    /\ UNCHANGED <<cfg, hist, exc, nmsg, accepted, inbox, bc, ndisc, db, row, voice>>

\* disconnect, line 40: async with self._lock (the handler's finally block)
DLock(t) ==
    /\ pc[t] = "d_lock" /\ Turn(t) /\ lock = NoTask
    /\ lock' = t
    /\ Go(t, "d_rm")
    /\ UNCHANGED <<cfg, hist, exc, ci, nmsg, rooms, accepted, inbox, bc, ndisc, reg, db, row, voice>>

\* a finally block that starts the offline transition whatever the room holds
AfterDisconnectUnchecked(t, rs) ==
    CASE kind[t] = "bot" /\ ci[t] < Len(trooms[t]) -> "d_lock"
      [] kind[t] = "personal" -> "p_off_get"
      [] OTHER -> EndPc(exc[t])

\* where a handler continues after the manager.disconnect of its finally block:
\* bot_gateway_ws loops over its rooms, personal_ws reads the membership of its
\* room (ws.py:251) in the same uninterrupted run
AfterDisconnect(t, rs) ==
    CASE kind[t] = "bot" /\ ci[t] < Len(trooms[t]) -> "d_lock"
      [] kind[t] = "personal" /\ Get(rs, trooms[t][1], {}) = {} -> "p_off_get"
      [] OTHER -> EndPc(exc[t])

\* disconnect, lines 41-43: the removal, and the release of the lock
DRm(t) ==
    /\ pc[t] = "d_rm" /\ Turn(t)
    /\ rooms' = Leave(rooms, trooms[t][ci[t]], t)
    /\ lock' = NoTask
    /\ ndisc' = [ndisc EXCEPT ![t] = @ + 1]
    /\ ci' = [ci EXCEPT ![t] = IF kind[t] = "bot" /\ @ < Len(trooms[t]) THEN @ + 1 ELSE @]
    /\ hist' = [hist EXCEPT !.seen[t] =
                  IF kind[t] # "personal" THEN @
                  ELSE IF Get(rooms', trooms[t][1], {}) = {} THEN "empty" ELSE "others"]
    /\ Go(t, AfterDisconnect(t, rooms'))
    /\ UNCHANGED <<cfg, exc, nmsg, accepted, inbox, bc, reg, db, row, voice>>

\* ---- direct callers of connect and disconnect (tests/test_ws.py) -------------
\* the rooms and the stub connections the callers pass
CallerRooms == {channel_room(1), server_room(1)}

\* connect(room, ws) with a stub whose accept returns at once: the lock is
\* taken when free, the connection is added, the lock is released
MConnect(t) ==
    /\ pc[t] = "m_in" /\ Turn(t) /\ kind[t] = "mcaller"
    /\ lock = NoTask /\ nmsg[t] < MaxMsgs
    /\ nmsg' = [nmsg EXCEPT ![t] = @ + 1]
    /\ \E r \in CallerRooms, w \in Tasks :
         /\ accepted' = [accepted EXCEPT ![w] = TRUE]
         /\ rooms' = Join(rooms, r, w)
         /\ hist' = [hist EXCEPT !.mcall[t] =
                       [op |-> "connect", room |-> r, ws |-> w,
                        was |-> w \in Get(rooms, r, {})]]
    /\ Go(t, "m_in")
    /\ UNCHANGED <<cfg, exc, ci, lock, inbox, bc, ndisc, reg, db, row, voice>>

\* disconnect(room, ws): the lock is taken when free, the connection is
\* discarded, an empty room is deleted, the lock is released
MDisconnect(t) ==
    /\ pc[t] = "m_in" /\ Turn(t) /\ kind[t] = "mcaller"
    /\ lock = NoTask /\ nmsg[t] < MaxMsgs
    /\ nmsg' = [nmsg EXCEPT ![t] = @ + 1]
    /\ \E r \in CallerRooms, w \in Tasks :
         /\ rooms' = Leave(rooms, r, w)
         /\ hist' = [hist EXCEPT !.mcall[t] =
                       [op |-> "disconnect", room |-> r, ws |-> w,
                        was |-> w \in Get(rooms, r, {})]]
    /\ Go(t, "m_in")
    /\ UNCHANGED <<cfg, exc, ci, lock, accepted, inbox, bc, ndisc, reg, db, row, voice>>

\* ---- broadcast, broadcast_channel_except, broadcast_to_users ----------------
Call(api, rms, excl, ev) == [api |-> api, rms |-> rms, excl |-> excl, ev |-> ev]

\* t starts a sequence of broadcast calls and continues at ret afterwards
StartCalls(t, calls, ret) ==
    /\ bc' = [bc EXCEPT ![t] = [@ EXCEPT !.calls = calls, !.ret = ret,
                 !.pstatus = IF ret = "bp_friends" THEN @ ELSE "",
                 !.pret = IF ret = "bp_friends" THEN @ ELSE "done"]]
    /\ Go(t, IF calls = << >> THEN ret ELSE "b_begin")

\* a call that sends the event of the last call of the sequence
EnteredLast(b) ==
    LET c == Head(b.calls)
        l == b.calls[Len(b.calls)]
    IN [b EXCEPT !.rms = c.rms, !.excl = c.excl, !.ev = l.ev, !.pay = Dumps(l.ev),
                 !.nser = 1, !.dead = << >>, !.snap = {}, !.cur = NoTask, !.room = << >>,
                 !.mem0 = {}, !.tried = {}, !.ok = {}, !.failed = {}, !.stale = {}]

\* the locals of a call that was just entered: payload = json.dumps(event),
\* dead = [] (lines 51-52, 84-86, 112-113)
Entered(b) ==
    LET c == Head(b.calls)
    IN [b EXCEPT !.rms = c.rms, !.excl = c.excl, !.ev = c.ev, !.pay = Dumps(c.ev),
                 !.nser = 1, !.dead = << >>, !.snap = {}, !.cur = NoTask, !.room = << >>,
                 !.mem0 = {}, !.tried = {}, !.ok = {}, !.failed = {}, !.stale = {}]

\* a fan-out that does not skip `exclude`
RecipientsAll(members, excl) == members

\* lines 87-89: if ws is exclude: continue (NoTask: the call has no exclude)
Recipients(members, excl) == members \ {excl}

RECURSIVE NextRoom(_, _)
\* lines 53, 87, 114-116: when the snapshot of a room is used up the next room
\* is snapshotted (broadcast_to_users iterates several rooms); `exclude` is
\* skipped (lines 88-89).  mem0 records who was a member at that moment.
NextRoom(b, rs) ==
    IF b.snap # {} \/ b.rms = << >> THEN b
    ELSE LET r == Head(b.rms)
         IN NextRoom([b EXCEPT !.room = r, !.rms = Tail(@),
                               !.snap = Recipients(Snapshot(rs, r), b.excl),
                               !.mem0 = @ \cup {<<r, w>> : w \in Get(rs, r, {}) \ {b.excl}}],
                     rs)

\* lines 53-55: the loop goes on from locals b: the next recipient (a set is
\* iterated in no particular order) is sent the payload, or the loop is over
\* and the dead connections, if any, are pruned
Fanout(t, b) ==
    LET n == NextRoom(b, rooms)
    IN IF n.snap = {}
       THEN /\ bc' = [bc EXCEPT ![t] = n]
            /\ Go(t, IF n.dead = << >> THEN "b_ret" ELSE "b_prune")
       ELSE /\ \E w \in n.snap :
                 bc' = [bc EXCEPT ![t] = [n EXCEPT
                          !.snap = @ \ {w}, !.cur = w,
                          !.pay = LoopPayload(n).pay, !.nser = LoopPayload(n).nser,
                          !.tried = @ \cup {<<n.room, w>>},
                          !.stale = @ \cup (IF w \in Get(rooms, n.room, {})
                                            THEN {} ELSE {<<n.room, w>>})]]
            /\ Go(t, "b_send")

\* the history after t entered the call at the head of its calls
Logged(t) ==
    LET c == Head(bc[t].calls)
        after == IF bc[t].ret \in {"bp_servers", "bp_friends"} THEN bc[t].pret ELSE bc[t].ret
        k == <<after, c.rms[1], c.ev>>
    IN IF c.ev.type = "user.status_changed"
       THEN [hist EXCEPT !.sent = Put(@, k, Get(@, k, 0) + 1)]
       ELSE IF c.ev.type = "ev" /\ c.ev.val = "1"
       THEN [hist EXCEPT !.first[t] = {<<c.rms[1], w>> : w \in Get(rooms, c.rms[1], {})}]
       ELSE hist

\* a broadcast that takes the membership lock before it fans out
BBeginLocked(t) ==
    /\ pc[t] = "b_begin" /\ Turn(t) /\ lock = NoTask
    /\ lock' = t
    /\ Fanout(t, Entered(bc[t]))
    /\ hist' = Logged(t)
    /\ UNCHANGED <<cfg, exc, ci, nmsg, rooms, accepted, inbox, ndisc, reg, db, row, voice>>

\* broadcast / broadcast_channel_except / broadcast_to_users is entered: the
\* event is serialised, the room is snapshotted without the lock and the first
\* send is awaited
BBegin(t) ==
    /\ pc[t] = "b_begin" /\ Turn(t)
    /\ Fanout(t, Entered(bc[t]))
    /\ hist' = Logged(t)
    /\ UNCHANGED <<cfg, exc, ci, nmsg, rooms, lock, accepted, inbox, ndisc, reg, db, row, voice>>

\* an except branch that forgets the failed connection
DeadForgotten(b, d) == b.dead

\* lines 56-57: except Exception: dead.append(ws)
Dead(b, d) == Append(b.dead, d)

\* lines 55-57: await ws.send_text(payload) completes or raises (the connection
\* is appended to dead), and the loop goes on
BSend(t) ==
    /\ pc[t] = "b_send" /\ Turn(t)
    /\ LET w == bc[t].cur
           d == <<bc[t].room, w>>
       IN IF Live(w)
          THEN /\ inbox' = [inbox EXCEPT ![w] = Append(@, bc[t].pay)]
               /\ Fanout(t, [bc[t] EXCEPT !.cur = NoTask, !.ok = @ \cup {d}])
          ELSE /\ inbox' = inbox
               /\ Fanout(t, [bc[t] EXCEPT !.cur = NoTask, !.failed = @ \cup {d},
                                          !.dead = Dead(bc[t], d)])
    /\ UNCHANGED <<cfg, hist, exc, ci, nmsg, rooms, lock, accepted, ndisc, reg, db, row, voice>>

\* lines 58-59: for ws in dead: await self.disconnect(room, ws) -- the lock
BPrune(t) ==
    /\ pc[t] = "b_prune" /\ Turn(t) /\ lock = NoTask
    /\ lock' = t
    /\ Go(t, "b_prm")
    /\ UNCHANGED <<cfg, hist, exc, ci, nmsg, rooms, accepted, inbox, bc, ndisc, reg, db, row, voice>>

\* lines 58-59: the removal of one dead connection, and the release of the lock
BPrm(t) ==
    /\ pc[t] = "b_prm" /\ Turn(t)
    /\ LET d == Head(bc[t].dead)
       IN rooms' = Leave(rooms, d[1], d[2])
    /\ lock' = NoTask
    /\ bc' = [bc EXCEPT ![t] = [@ EXCEPT !.dead = Tail(@)]]
    /\ Go(t, IF Tail(bc[t].dead) = << >> THEN "b_ret" ELSE "b_prune")
    /\ UNCHANGED <<cfg, hist, exc, ci, nmsg, accepted, inbox, ndisc, reg, db, row, voice>>

\* the call returns to its caller, who makes its next call or goes on (the
\* locals of the call are dropped)
BRet(t) ==
    /\ pc[t] = "b_ret" /\ Turn(t)
    /\ bc' = [bc EXCEPT ![t] =
                IF Tail(bc[t].calls) = << >> /\ bc[t].ret \notin {"bp_servers", "bp_friends"}
                THEN NoBc
                ELSE [NoBc EXCEPT !.calls = Tail(bc[t].calls), !.ret = bc[t].ret,
                                  !.pstatus = bc[t].pstatus, !.pret = bc[t].pret]]
    /\ Go(t, IF Tail(bc[t].calls) = << >> THEN bc[t].ret ELSE "b_begin")
    /\ UNCHANGED <<cfg, hist, exc, ci, nmsg, rooms, lock, accepted, inbox, ndisc, reg, db, row, voice>>

\* the calls business logic makes: broadcast_channel / broadcast_server /
\* broadcast_user of one event, or broadcast_to_users of one event
ExternalCalls(t) ==
    {Call("broadcast", <<r>>, NoTask, Ev("ev", t, 0, "", {})) :
        r \in {channel_room(1), server_room(1), user_room(1)}}
    \cup {Call("to_users", <<user_room(1), user_room(2)>>, NoTask, Ev("ev", t, 0, "", {}))}

\* a caller of the broadcaster (a request handler after it changed a resource)
BcastCall(t) ==
    /\ pc[t] = "call" /\ Turn(t) /\ kind[t] = "bcast"
    /\ \E c \in ExternalCalls(t) : StartCalls(t, <<c>>, "done")
    /\ UNCHANGED <<cfg, hist, exc, ci, nmsg, rooms, lock, accepted, inbox, ndisc, reg, db, row, voice>>

\* a caller that awaits broadcast(R, e1) and then calls broadcast(R, e2)
BcastTwice(t) ==
    /\ pc[t] = "call" /\ Turn(t) /\ kind[t] = "bcast2"
    /\ \E r \in {channel_room(1), server_room(1)} :
         StartCalls(t, << Call("broadcast", <<r>>, NoTask, Ev("ev", t, 0, "1", {})),
                          Call("broadcast", <<r>>, NoTask, Ev("ev", t, 0, "2", {})) >>,
                    "done")
    /\ UNCHANGED <<cfg, hist, exc, ci, nmsg, rooms, lock, accepted, inbox, ndisc, reg, db, row, voice>>

\* ---- receive loops (ws.py:100-120, 170-173, 232-245, 298-310) ---------------
\* what a client may send: a typing notice, a heartbeat, anything else
ClientMsgs == {"typing", "ping", "junk"}

\* receive_text raises WebSocketDisconnect: the client closed the transport.
\* Every handler leaves its loop and enters its finally block.
RecvClosed(t) ==
    /\ pc[t] = "recv" /\ Turn(t) /\ ~open[t]
    /\ exc' = [exc EXCEPT ![t] = FALSE]
    /\ hist' = [hist EXCEPT !.how[t] = "close"]
    /\ Go(t, "d_lock")
    /\ UNCHANGED <<cfg, ci, nmsg, rooms, lock, accepted, inbox, bc, ndisc, reg, db, row, voice>>

\* receive_text raises another exception (a frame that is not text):
\* channel_ws catches it and breaks, the other handlers let it propagate
\* through their finally block
RecvError(t) ==
    /\ pc[t] = "recv" /\ Turn(t) /\ open[t]
    /\ exc' = [exc EXCEPT ![t] = kind[t] # "channel"]
    /\ hist' = [hist EXCEPT !.how[t] = "error"]
    /\ Go(t, "d_lock")
    /\ UNCHANGED <<cfg, ci, nmsg, rooms, lock, accepted, inbox, bc, ndisc, reg, db, row, voice>>

\* a timeout that returns from the handler at once, past its finally block
RecvTimeoutReturns(t) ==
    /\ pc[t] = "recv" /\ Turn(t) /\ kind[t] \in {"personal", "bot"}
    /\ exc' = [exc EXCEPT ![t] = FALSE]
    /\ hist' = [hist EXCEPT !.how[t] = "timeout"]
    /\ Go(t, "done")
    /\ UNCHANGED <<cfg, ci, nmsg, rooms, lock, accepted, inbox, bc, ndisc, reg, db, row, voice>>

\* asyncio.wait_for(..., timeout=_HEARTBEAT_TIMEOUT) raises TimeoutError: break
RecvTimeout(t) ==
    /\ pc[t] = "recv" /\ Turn(t) /\ kind[t] \in {"personal", "bot"}
    /\ exc' = [exc EXCEPT ![t] = FALSE]
    /\ hist' = [hist EXCEPT !.how[t] = "timeout"]
    /\ Go(t, "d_lock")
    /\ UNCHANGED <<cfg, ci, nmsg, rooms, lock, accepted, inbox, bc, ndisc, reg, db, row, voice>>

\* a text message arrives: channel_ws fans out a typing notice, personal_ws
\* and bot_gateway_ws answer a ping, everything else is ignored
RecvMsg(t) ==
    /\ pc[t] = "recv" /\ Turn(t) /\ open[t] /\ nmsg[t] < MaxMsgs
    /\ nmsg' = [nmsg EXCEPT ![t] = @ + 1]
    /\ \E m \in ClientMsgs :
         Go(t, CASE kind[t] = "channel" /\ m = "typing" -> "ty_db"
                 [] kind[t] \in {"personal", "bot"} /\ m = "ping" -> "pong"
                 [] OTHER -> "recv")
    /\ UNCHANGED <<cfg, hist, exc, ci, rooms, lock, accepted, inbox, bc, ndisc, reg, db, row, voice>>

\* channel_ws, lines 109-116: the user is loaded, then broadcast_channel_except;
\* an exception of the load is swallowed (line 117)
TypingDb(t) ==
    /\ pc[t] = "ty_db" /\ Turn(t)
    /\ \/ StartCalls(t, << Call("except", << trooms[t][1] >>, t,
                                Ev("typing.start", t, uid[t], "", {})) >>, "recv")
       \/ bc' = bc /\ Go(t, "recv")
    /\ UNCHANGED <<cfg, hist, exc, ci, nmsg, rooms, lock, accepted, inbox, ndisc, reg, db, row, voice>>

\* personal_ws / bot_gateway_ws: await ws.send_text('{"type":"pong"}'), a
\* failure of the send is swallowed
Pong(t) ==
    /\ pc[t] = "pong" /\ Turn(t)
    /\ inbox' = IF Live(t) THEN [inbox EXCEPT ![t] = Append(@, PongText)] ELSE inbox
    /\ Go(t, "recv")
    /\ UNCHANGED <<cfg, hist, exc, ci, nmsg, rooms, lock, accepted, bc, ndisc, reg, db, row, voice>>

\* the client closes its transport (seen by the server at its next await)
ClientClose(c) ==
    /\ running = NoTask
    /\ kind[c] \in WsKinds \cup VoiceKinds
    /\ open[c] /\ pc[c] \notin Ended
    /\ open' = [open EXCEPT ![c] = FALSE]
    /\ UNCHANGED <<cfg, hist, pc, running, exc, ci, nmsg, rooms, lock, accepted, inbox, bc,
                   ndisc, reg, db, row, voice>>

\* ---- presence (ws.py:211-229, 249-258; presence.py; users.py:27-60) ---------
RECURSIVE SetToSeq(_)
\* the rows of a query result, as a list
SetToSeq(S) ==
    IF S = {} THEN << >>
    ELSE LET x == CHOOSE y \in S : \A z \in S : y <= z
         IN << x >> \o SetToSeq(S \ {x})

StatusEv(t, u, s) == Ev("user.status_changed", t, u, s, {})

\* db.get(User, user_id) / db.refresh: the row as it is now
ReadRow(t) == [row[t] EXCEPT !.status = status[uid[t]],
                             !.preferred = preferred[uid[t]],
                             !.hide = hide[uid[t]]]

\* t continues with calls, then with broadcast_presence(user, ps, db), then at pr
StartPresence(t, calls, ps, pr) ==
    /\ bc' = [bc EXCEPT ![t] = [@ EXCEPT !.calls = calls, !.ret = "bp_servers",
                                          !.pstatus = ps, !.pret = pr]]
    /\ Go(t, IF calls = << >> THEN "bp_servers" ELSE "b_begin")

\* personal_ws, lines 214-216: the user row is read after the connection was
\* registered and outside the try block
PGet(t) ==
    /\ pc[t] = "p_get" /\ Turn(t)
    /\ \/ /\ row' = [row EXCEPT ![t] = IF status[uid[t]] # preferred[uid[t]]
                                         THEN ReadRow(t) ELSE NoRow]
          /\ Go(t, IF status[uid[t]] # preferred[uid[t]] THEN "p_commit" ELSE "recv")
       \/ /\ row' = row
          /\ Go(t, "crashed")
    /\ UNCHANGED <<cfg, hist, exc, ci, nmsg, rooms, lock, accepted, inbox, bc, ndisc, reg, db, voice>>

\* personal_ws, lines 217-228: status := preferred_status is committed, the
\* user's own room is told, then servers and friends ("offline" if hide_status)
PCommit(t) ==
    /\ pc[t] = "p_commit" /\ Turn(t)
    /\ \/ /\ status' = [status EXCEPT ![uid[t]] = row[t].preferred]
          /\ StartPresence(t,
                << Call("broadcast", << user_room(uid[t]) >>, NoTask,
                        StatusEv(t, uid[t], row[t].preferred)) >>,
                IF row[t].hide THEN "offline" ELSE row[t].preferred, "recv")
       \/ /\ status' = status /\ bc' = bc
          /\ Go(t, "crashed")
    /\ row' = [row EXCEPT ![t] = NoRow]
    /\ UNCHANGED <<cfg, hist, exc, ci, nmsg, rooms, lock, accepted, inbox, ndisc, reg,
                   preferred, hide, voice>>

\* broadcast_presence, lines 28-32: the user's servers are queried and each
\* server room is sent the event
BpServers(t) ==
    /\ pc[t] = "bp_servers" /\ Turn(t)
    /\ \/ LET ss == SetToSeq(MemberOf(uid[t]))
          IN StartCalls(t, [i \in 1..Len(ss) |->
                              Call("broadcast", << server_room(ss[i]) >>, NoTask,
                                   StatusEv(t, uid[t], bc[t].pstatus))],
                        "bp_friends")
       \/ bc' = [bc EXCEPT ![t] = NoBc] /\ Go(t, "crashed")
    /\ UNCHANGED <<cfg, hist, exc, ci, nmsg, rooms, lock, accepted, inbox, ndisc, reg, db, row, voice>>

\* broadcast_presence, lines 35-43: the accepted friends are queried and each
\* friend's personal room is sent the event
BpFriends(t) ==
    /\ pc[t] = "bp_friends" /\ Turn(t)
    /\ \/ LET fs == SetToSeq(FriendsOf(uid[t]))
          IN StartCalls(t, [i \in 1..Len(fs) |->
                              Call("broadcast", << user_room(fs[i]) >>, NoTask,
                                   StatusEv(t, uid[t], bc[t].pstatus))],
                        bc[t].pret)
       \/ bc' = [bc EXCEPT ![t] = NoBc] /\ Go(t, "crashed")
    /\ UNCHANGED <<cfg, hist, exc, ci, nmsg, rooms, lock, accepted, inbox, ndisc, reg, db, row, voice>>

\* personal_ws, lines 252-254: the room was seen empty, the user row is read
POffGet(t) ==
    /\ pc[t] = "p_off_get" /\ Turn(t)
    /\ \/ /\ hist' = [hist EXCEPT !.read[t] = status[uid[t]]]
          /\ Go(t, IF status[uid[t]] # "offline" THEN "p_off_commit" ELSE EndPc(exc[t]))
       \/ /\ hist' = hist
          /\ Go(t, "crashed")
    /\ UNCHANGED <<cfg, exc, ci, nmsg, rooms, lock, accepted, inbox, bc, ndisc, reg, db, row, voice>>

\* an offline transition that also resets preferred_status
POffCommitForgets(t) ==
    /\ pc[t] = "p_off_commit" /\ Turn(t)
    /\ status' = [status EXCEPT ![uid[t]] = "offline"]
    /\ preferred' = [preferred EXCEPT ![uid[t]] = "offline"]
    /\ StartPresence(t, << >>, "offline", EndPc(exc[t]))
    /\ UNCHANGED <<cfg, hist, exc, ci, nmsg, rooms, lock, accepted, inbox, ndisc, reg,
                   hide, row, voice>>

\* personal_ws, lines 255-258: status := offline is committed and broadcast
POffCommit(t) ==
    /\ pc[t] = "p_off_commit" /\ Turn(t)
    /\ \/ /\ status' = [status EXCEPT ![uid[t]] = "offline"]
          /\ StartPresence(t, << >>, "offline", EndPc(exc[t]))
       \/ /\ status' = status /\ bc' = bc
          /\ Go(t, "crashed")
    /\ UNCHANGED <<cfg, hist, exc, ci, nmsg, rooms, lock, accepted, inbox, ndisc, reg,
                   preferred, hide, row, voice>>

\* update_me: current_user is loaded, body.status is compared with it (line 38)
ULoad(t) ==
    /\ pc[t] = "u_load" /\ Turn(t)
    /\ \/ /\ \E s \in StatusInputs :
               row' = [row EXCEPT ![t] = [ReadRow(t) EXCEPT
                          !.body = s, !.changed = (s # status[uid[t]])]]
          /\ Go(t, "u_commit")
       \/ /\ row' = row
          /\ Go(t, "crashed")
    /\ UNCHANGED <<cfg, hist, exc, ci, nmsg, rooms, lock, accepted, inbox, bc, ndisc, reg, db, voice>>

\* update_me, lines 41-53: status and preferred_status are set to body.status
\* and committed (the UPDATE carries the columns whose value changed)
UCommit(t) ==
    /\ pc[t] = "u_commit" /\ Turn(t)
    /\ \/ /\ status' = IF row[t].body # row[t].status
                       THEN [status EXCEPT ![uid[t]] = row[t].body] ELSE status
          /\ preferred' = IF row[t].body # row[t].preferred
                          THEN [preferred EXCEPT ![uid[t]] = row[t].body] ELSE preferred
          /\ Go(t, "u_refresh")
       \/ /\ status' = status /\ preferred' = preferred
          /\ Go(t, "crashed")
    /\ row' = [row EXCEPT ![t] = [NoRow EXCEPT !.changed = row[t].changed]]
    /\ UNCHANGED <<cfg, hist, exc, ci, nmsg, rooms, lock, accepted, inbox, bc, ndisc, reg,
                   hide, voice>>

\* update_me, lines 54-58: the row is refreshed; a changed status is broadcast
\* to servers and friends as it is stored now
URefresh(t) ==
    /\ pc[t] = "u_refresh" /\ Turn(t)
    /\ \/ IF row[t].changed
          THEN StartPresence(t, << >>, status[uid[t]], "done")
          ELSE bc' = bc /\ Go(t, "done")
       \/ bc' = bc /\ Go(t, "crashed")
    /\ row' = [row EXCEPT ![t] = NoRow]
    /\ UNCHANGED <<cfg, hist, exc, ci, nmsg, rooms, lock, accepted, inbox, ndisc, reg, db, voice>>

\* ---- VoiceManager (voice_manager.py) and voice_ws (routers/voice.py) --------
\* VoiceParticipant defaults (voice_manager.py:51-54)
NewFlags == [is_muted |-> FALSE, is_deafened |-> FALSE,
             is_sharing_screen |-> FALSE, is_sharing_webcam |-> FALSE]
EmptyRoom == [x \in {} |-> NoTask]
\* the voice channel of a task
VChan(t) == trooms[t][1][2]
\* VoiceParticipant.to_dict of the participant object p of user u
ToDict(u, p) == [user_id |-> u, flags |-> part[p]]
\* the attributes class VoiceManager defines
VoiceManagerAttrs == {"_rooms", "_lock", "connect", "disconnect", "update_state", "relay",
                      "get_participants", "get_channel_ids", "_send", "_broadcast_all",
                      "_broadcast_except"}

\* voice_ws, line 156, reads voice_manager.get_participant right after connect
\* returned: an attribute the class does not define raises AttributeError, and
\* the statement is outside the try block.  A direct caller of the manager
\* (tests/test_voice.py) goes on.
AfterVoiceConnect(k) ==
    IF k = "voice_ws"
    THEN IF "get_participant" \in VoiceManagerAttrs THEN "v_notify" ELSE "crashed"
    ELSE "v_in"

\* VoiceManager.connect, line 77: await ws.accept() (outside voice_ws's try)
VAccept(t) ==
    /\ pc[t] = "vc_accept" /\ Turn(t)
    /\ IF open[t] /\ ~accepted[t]
       THEN accepted' = [accepted EXCEPT ![t] = TRUE] /\ Go(t, "vc_lock")
       ELSE accepted' = accepted /\ Go(t, "crashed")
    /\ UNCHANGED <<cfg, hist, exc, ci, nmsg, rooms, lock, inbox, bc, ndisc, reg, db, row, voice>>

\* connect, line 78: async with self._lock
VLock(t) ==
    /\ pc[t] = "vc_lock" /\ Turn(t) /\ vlock = NoTask
    /\ vlock' = t
    /\ Go(t, "vc_add")
    /\ UNCHANGED <<cfg, hist, exc, ci, nmsg, rooms, lock, accepted, inbox, bc, ndisc, reg, db, row,
                   vrooms, vdisc, part>>

\* _send, lines 176-179: ws.send_text(json.dumps(event)) is called with no
\* suspension before it, so the text is handed to the transport of w, after
\* whatever was handed to it before, when _send is called; the await of
\* send_text that follows may suspend the caller.  A failure is swallowed
Handed(ib, w, e) ==
    IF Live(w) THEN [ib EXCEPT ![w] = Append(@, Dumps(e))] ELSE ib

\* a connect that sends no member list
NoGreeting(ib, t, e) == ib

\* connect, lines 87-90: the member list is sent to the joiner straight after
\* the insert, before any await
Greeting(ib, t, e) == Handed(ib, t, e)

\* connect, lines 79-90: the participant is created and stored under its user
\* id, the lock is released and the member list is built
VAdd(t) ==
    /\ pc[t] = "vc_add" /\ Turn(t)
    /\ vrooms' = Put(vrooms, VChan(t), Put(Get(vrooms, VChan(t), EmptyRoom), uid[t], t))
    /\ part' = [part EXCEPT ![t] = NewFlags]
    /\ vlock' = NoTask
    /\ bc' = [bc EXCEPT ![t] = [@ EXCEPT
                !.ev = Ev("voice.members", t, uid[t], "",
                          {[user_id |-> u, flags |-> part'[vrooms'[VChan(t)][u]]] :
                              u \in DOMAIN vrooms'[VChan(t)]}),
                !.nser = 0]]
    /\ reg' = [reg EXCEPT ![t] = @ \cup {trooms[t][1]}]
    /\ hist' = [hist EXCEPT !.vcall[t] =
                  [NoVCall EXCEPT !.op = "connect",
                                  !.snap = LET r == Get(vrooms, VChan(t), EmptyRoom)
                                           IN {r[u] : u \in (DOMAIN r) \ {uid[t]}}]]
    /\ inbox' = Greeting(inbox, t, bc'[t].ev)
    /\ Go(t, "vc_members")
    /\ UNCHANGED <<cfg, exc, ci, nmsg, rooms, lock, accepted, ndisc, db, row, vdisc>>

\* _broadcast_all / _broadcast_except, lines 181-190: the loop goes on from
\* locals b and the texts ib handed over so far: _send serialises the event
\* for the next participant of the snapshot, hands it over and awaits the
\* send, or the loop is over and the caller goes on
VFanout(t, b, ib) ==
    IF b.snap = {}
    THEN /\ bc' = [bc EXCEPT ![t] = NoBc]
         /\ inbox' = ib
         /\ Go(t, b.ret)
    ELSE /\ \E w \in b.snap :
              /\ bc' = [bc EXCEPT ![t] = [b EXCEPT !.snap = @ \ {w}, !.cur = w, !.nser = @ + 1]]
              /\ inbox' = Handed(ib, w, b.ev)
         /\ Go(t, "vb_send")

\* a _broadcast_except that finds no participant
Nobody(r, u) == {}

\* a _broadcast_except that does not skip the excluded user
Everyone(r, u) == {r[x] : x \in DOMAIN r}

\* _broadcast_except, lines 186-190: the participants of every other user
Others(r, u) == {r[x] : x \in (DOMAIN r) \ {u}}

\* connect, lines 87-97: _send of the member list completes (a failure is
\* swallowed), then _broadcast_except snapshots the other participants
VMembers(t) ==
    /\ pc[t] = "vc_members" /\ Turn(t)
    /\ LET r == Get(vrooms, VChan(t), EmptyRoom)
       IN VFanout(t, [bc[t] EXCEPT
                !.ev = Ev("voice.user_joined", t, uid[t], "", {ToDict(uid[t], t)}),
                !.snap = Others(r, uid[t]),
                !.nser = 0,
                !.ret = AfterVoiceConnect(kind[t])], inbox)
    /\ UNCHANGED <<cfg, hist, exc, ci, nmsg, rooms, lock, accepted, ndisc, reg, db, row, voice>>

\* _send, lines 175-179: send_text completes; an exception is logged only
VbSend(t) ==
    /\ pc[t] = "vb_send" /\ Turn(t)
    /\ VFanout(t, [bc[t] EXCEPT !.cur = NoTask], inbox)
    /\ UNCHANGED <<cfg, hist, exc, ci, nmsg, rooms, lock, accepted, ndisc, reg, db, row, voice>>

\* a direct caller of the manager calls disconnect(channel_id, user_id)
VCallDisconnect(t) ==
    /\ pc[t] = "v_in" /\ Turn(t)
    /\ Go(t, "vd_lock")
    /\ UNCHANGED <<cfg, hist, exc, ci, nmsg, rooms, lock, accepted, inbox, bc, ndisc, reg, db, row, voice>>

\* disconnect, line 100: async with self._lock
VDLock(t) ==
    /\ pc[t] = "vd_lock" /\ Turn(t) /\ vlock = NoTask
    /\ vlock' = t
    /\ Go(t, "vd_rm")
    /\ UNCHANGED <<cfg, hist, exc, ci, nmsg, rooms, lock, accepted, inbox, bc, ndisc, reg, db, row,
                   vrooms, vdisc, part>>

\* a lookup of the target in every voice room
TargetAnywhere(vr, c, b) ==
    IF \E x \in DOMAIN vr : b \in DOMAIN vr[x]
    THEN LET x == CHOOSE y \in DOMAIN vr : b \in DOMAIN vr[y] IN vr[x][b]
    ELSE NoTask

\* lines 125, 155: self._rooms.get(channel_id, {}).get(user_id), None as NoTask
Target(vr, c, b) == Get(Get(vr, c, EmptyRoom), b, NoTask)

\* a disconnect that leaves the participant in the room
VLeaveKeeps(vr, c, u) == vr

\* disconnect, lines 101-104: room.pop(user_id); an empty room is popped
VLeave(vr, c, u) ==
    LET r == Del(Get(vr, c, EmptyRoom), u)
    IN IF DOMAIN r = {} THEN Del(vr, c) ELSE Put(vr, c, r)

\* disconnect, lines 101-110: the removal, the release of the lock, and the
\* snapshot of the remaining participants for voice.user_left
VDRm(t) ==
    /\ pc[t] = "vd_rm" /\ Turn(t)
    /\ vrooms' = VLeave(vrooms, VChan(t), uid[t])
    /\ vlock' = NoTask
    /\ vdisc' = [vdisc EXCEPT ![t] = @ + 1]
    /\ hist' = [hist EXCEPT !.vcall[t] =
                  [NoVCall EXCEPT !.op = "disconnect",
                                  !.tgt = Target(vrooms, VChan(t), uid[t]),
                                  !.snap = LET r == Get(vrooms', VChan(t), EmptyRoom)
                                           IN {r[u] : u \in DOMAIN r}]]
    /\ LET r == Get(vrooms', VChan(t), EmptyRoom)
       IN VFanout(t, [bc[t] EXCEPT
                !.ev = Ev("voice.user_left", t, uid[t], "", {}),
                !.snap = {r[u] : u \in DOMAIN r},
                !.nser = 0,
                !.ret = "done"], inbox)
    /\ UNCHANGED <<cfg, exc, ci, nmsg, rooms, lock, accepted, ndisc, reg, db, row, part>>

\* ---- update_state and relay (voice_manager.py:116-159) ------------------------
\* the keyword arguments of an update_state call that are not None
UpdateArgs == {[is_muted |-> TRUE], [is_muted |-> FALSE],
               [is_deafened |-> TRUE, is_sharing_screen |-> TRUE]}
\* signalling messages a peer sends; a client may put any `from` in them
Payloads == {[type |-> "offer", sdp |-> "X"],
             [type |-> "offer", sdp |-> "X", from |-> "forged"]}
\* names the call a task is making (not part of what is sent)
CallId(t) == ToString(nmsg[t] + 1)

\* an update that sets every flag it is not given to False
SetFlagsOnly(fl, args) ==
    [f \in DOMAIN fl |-> IF f \in DOMAIN args THEN args[f] ELSE FALSE]

\* lines 128-135: each flag given (is not None) is assigned, the others stay
SetFlags(fl, args) ==
    [f \in DOMAIN fl |-> IF f \in DOMAIN args THEN args[f] ELSE fl[f]]

\* a relay that leaves the client's own `from` in place
EnvelopeKeepFrom(pl, a) ==
    [k \in (DOMAIN pl) \cup {"from"} |-> IF k \in DOMAIN pl THEN pl[k] ELSE ToString(a)]

\* line 158: envelope = {**payload, "from": str(from_user_id)}
Envelope(pl, a) ==
    [k \in (DOMAIN pl) \cup {"from"} |-> IF k = "from" THEN ToString(a) ELSE pl[k]]


\* update_state(channel_id, user_id, **args), lines 116-141: without the lock
\* and without an await the participant is looked up, its flags are assigned
\* and _broadcast_all snapshots the room; a user without entry: return
VUpdate(t) ==
    /\ pc[t] = "v_in" /\ Turn(t) /\ kind[t] = "vcaller" /\ nmsg[t] < MaxMsgs
    /\ nmsg' = [nmsg EXCEPT ![t] = @ + 1]
    /\ \E args \in UpdateArgs :
         LET p == Target(vrooms, VChan(t), uid[t])
             fl == SetFlags(part[p], args)
         IN IF p = NoTask
            THEN /\ part' = part /\ bc' = bc /\ inbox' = inbox
                 /\ hist' = [hist EXCEPT !.vcall[t] =
                               [NoVCall EXCEPT !.op = "update", !.id = CallId(t), !.arg = args]]
                 /\ Go(t, "v_in")
            ELSE /\ part' = [part EXCEPT ![p] = fl]
                 /\ hist' = [hist EXCEPT !.vcall[t] =
                               [NoVCall EXCEPT !.op = "update", !.id = CallId(t), !.tgt = p,
                                               !.arg = args,
                                               !.snap = {vrooms[VChan(t)][u] :
                                                           u \in DOMAIN vrooms[VChan(t)]}]]
                 /\ VFanout(t, [bc[t] EXCEPT
                        !.ev = Ev("voice.state_changed", t, uid[t], CallId(t),
                                  {[user_id |-> uid[t], flags |-> fl]}),
                        !.snap = {vrooms[VChan(t)][u] : u \in DOMAIN vrooms[VChan(t)]},
                        !.nser = 0,
                        !.ret = "v_in"], inbox)
    /\ UNCHANGED <<cfg, exc, ci, rooms, lock, accepted, ndisc, reg, db, row,
                   vrooms, vlock, vdisc>>

\* relay(channel_id, from_user_id, to_user_id, payload), lines 147-159: the
\* target is looked up in the given room; absent: return; otherwise the
\* envelope is sent to the target's connection
VRelay(t) ==
    /\ pc[t] = "v_in" /\ Turn(t) /\ kind[t] = "vcaller" /\ nmsg[t] < MaxMsgs
    /\ nmsg' = [nmsg EXCEPT ![t] = @ + 1]
    /\ \E b \in Users, pl \in Payloads :
         LET p == Target(vrooms, VChan(t), b)
         IN /\ hist' = [hist EXCEPT !.vcall[t] =
                          [NoVCall EXCEPT !.op = "relay", !.id = CallId(t), !.tgt = p,
                                          !.to = b, !.arg = pl]]
            /\ IF p = NoTask
               THEN bc' = bc /\ inbox' = inbox /\ Go(t, "v_in")
               ELSE VFanout(t, [bc[t] EXCEPT
                        !.ev = Ev("voice.relay", t, uid[t], CallId(t),
                                  {Envelope(pl, uid[t])}),
                        !.snap = {p},
                        !.nser = 0,
                        !.ret = "v_in"], inbox)
    /\ UNCHANGED <<cfg, exc, ci, rooms, lock, accepted, ndisc, reg, db, row, voice>>

\* ---- initial states ----------------------------------------------------------
\* No connection exists, both registries are empty, every stored status is
\* offline.  KS: the coroutine each task may run; PS, HS: the durable
\* preferred_status and hide_status of user 1 (user 2: online, not hidden).
InitWith(KS, US, PS, HS) ==
    /\ kind \in KS
    /\ uid \in US
    /\ trooms = [t \in Tasks |-> RoomsOf(kind[t], uid[t])]
    /\ pc = [t \in Tasks |-> FirstPc(kind[t])]
    /\ running = NoTask
    /\ exc = [t \in Tasks |-> FALSE]
    /\ ci = [t \in Tasks |-> 1]
    /\ nmsg = [t \in Tasks |-> 0]
    /\ rooms = EmptyDict
    /\ lock = NoTask
    /\ open = [t \in Tasks |-> TRUE]
    /\ accepted = [t \in Tasks |-> FALSE]
    /\ inbox = [t \in Tasks |-> << >>]
    /\ bc = [t \in Tasks |-> NoBc]
    /\ ndisc = [t \in Tasks |-> 0]
    /\ reg = [t \in Tasks |-> {}]
    /\ status = [u \in Users |-> "offline"]
    /\ preferred \in {[u \in Users |-> IF u = 1 THEN p ELSE "online"] : p \in PS}
    /\ hide \in {[u \in Users |-> IF u = 1 THEN h ELSE FALSE] : h \in HS}
    /\ row = [t \in Tasks |-> NoRow]
    /\ vrooms = EmptyDict
    /\ vlock = NoTask
    /\ vdisc = [t \in Tasks |-> 0]
    /\ part = [t \in Tasks |-> NewFlags]
    /\ hist = NoHist

\* ---- the steps of each coroutine ----------------------------------------------
ManagerStep(t) ==
    \/ Accept(t) \/ CLock(t) \/ CAdd(t) \/ DLock(t) \/ DRm(t)

BroadcastStep(t) ==
    \/ BBegin(t) \/ BSend(t) \/ BPrune(t) \/ BPrm(t) \/ BRet(t)

HandlerStep(t) ==
    \/ RecvClosed(t) \/ RecvError(t) \/ RecvMsg(t) \/ TypingDb(t)

HeartbeatStep(t) ==
    \/ RecvTimeout(t) \/ Pong(t)

PresenceStep(t) ==
    \/ PGet(t) \/ PCommit(t) \/ POffGet(t) \/ POffCommit(t) \/ BpServers(t) \/ BpFriends(t)

UpdateStep(t) ==
    \/ ULoad(t) \/ UCommit(t) \/ URefresh(t)

VoiceStep(t) ==
    \/ VAccept(t) \/ VLock(t) \/ VAdd(t) \/ VMembers(t) \/ VbSend(t)
    \/ VCallDisconnect(t) \/ VDLock(t) \/ VDRm(t)

\* the coroutine of task t is one of Ks[t]; tasks beyond Ks run one of its last
\* entry
Layout(Ks) ==
    {k \in [Tasks -> WsKinds \cup VoiceKinds \cup {"bcast", "bcast2", "update", "mcaller", "reader", "none"}] :
        \A t \in Tasks : k[t] \in Ks[IF t <= Len(Ks) THEN t ELSE Len(Ks)]}
\* tasks 1 and 2 act for user 1, the others for any user
AnyUser == {u \in [Tasks -> Users] : u[1] = 1 /\ u[2] = 1}

\* Both registries: a caller of broadcast, then channel_ws and server_ws
\* connections, voice_ws connections and direct callers of the VoiceManager
Init == InitWith(Layout(<< {"bcast"}, {"channel", "server", "voice_ws", "vcaller"} >>),
                 AnyUser, {"online"}, {FALSE})
Next ==
    \/ \E t \in Tasks : ManagerStep(t)
    \/ \E t \in Tasks : BroadcastStep(t)
    \/ \E t \in Tasks : BcastCall(t)
    \/ \E t \in Tasks : HandlerStep(t)
    \/ \E t \in Tasks : VoiceStep(t)
    \/ \E c \in Tasks : ClientClose(c)
Spec == Init /\ [][Next]_vars

\* the steps inside a call of connect, disconnect or broadcast of either
\* manager: accepts and sends that return or raise, lock acquisitions and
\* the statements between them
CallStep(t) ==
    \/ ManagerStep(t) \/ BroadcastStep(t)
    \/ VAccept(t) \/ VLock(t) \/ VAdd(t) \/ VMembers(t) \/ VbSend(t) \/ VDLock(t) \/ VDRm(t)
\* Fair: a caller of broadcast, then channel_ws connections and direct
\* callers of VoiceManager.connect and disconnect, under the scheduling of
\* the asyncio event loop: ready callbacks run in FIFO order and
\* asyncio.Lock wakes its waiters in FIFO order, so a step of a call that
\* is enabled again and again is taken
InitFair == InitWith(Layout(<< {"bcast"}, {"channel", "vcaller"} >>), AnyUser, {"online"}, {FALSE})
NextFair ==
    \/ \E t \in Tasks : ManagerStep(t)
    \/ \E t \in Tasks : BroadcastStep(t)
    \/ \E t \in Tasks : BcastCall(t)
    \/ \E t \in Tasks : HandlerStep(t)
    \/ \E t \in Tasks : VoiceStep(t)
    \/ \E c \in Tasks : ClientClose(c)
SpecFair == InitFair /\ [][NextFair]_vars /\ \A t \in Tasks : SF_vars(CallStep(t))

\* Fan-out: a caller of broadcast / broadcast_to_users, a channel_ws or
\* personal_ws connection, then channel_ws or bot_gateway_ws connections
\* (user 1 is a member of every server, user 2 of none)
InitFan == InitWith(Layout(<< {"bcast"}, {"channel", "personal"}, {"channel", "bot"} >>),
                    AnyUser, {"online"}, {FALSE})
NextFan ==
    \/ \E t \in Tasks : ManagerStep(t)
    \/ \E t \in Tasks : BroadcastStep(t)
    \/ \E t \in Tasks : BcastCall(t)
    \/ \E t \in Tasks : HandlerStep(t)
    \/ \E t \in Tasks : HeartbeatStep(t)
    \/ \E t \in Tasks : PresenceStep(t)
    \/ \E c \in Tasks : ClientClose(c)
SpecFan == InitFan /\ [][NextFan]_vars

\* Presence: an update_me request or a personal_ws connection, then a
\* personal_ws connection, all of user 1
InitPresence == InitWith(Layout(<< {"update", "personal"}, {"personal"}, {"none"} >>),
                         [Tasks -> {1}], {"online"}, {FALSE})
NextPresence ==
    \/ \E t \in Tasks : ManagerStep(t)
    \/ \E t \in Tasks : BroadcastStep(t)
    \/ \E t \in Tasks : RecvClosed(t) \/ RecvError(t) \/ RecvMsg(t)
    \/ \E t \in Tasks : HeartbeatStep(t)
    \/ \E t \in Tasks : PresenceStep(t)
    \/ \E t \in Tasks : UpdateStep(t)
    \/ \E c \in Tasks : ClientClose(c)
SpecPresence == InitPresence /\ [][NextPresence]_vars

\* Devices: a personal_ws connection and a bot_gateway_ws connection of
\* user 2, who belongs to no server, so that both share the room user:2
InitDevices == InitWith(Layout(<< {"personal"}, {"bot"}, {"none"} >>),
                        {[t \in Tasks |-> 2]}, {"online"}, {FALSE})
NextDevices ==
    \/ \E t \in Tasks : ManagerStep(t)
    \/ \E t \in Tasks : BroadcastStep(t)
    \/ \E t \in Tasks : RecvClosed(t) \/ RecvError(t) \/ RecvMsg(t)
    \/ \E t \in Tasks : HeartbeatStep(t)
    \/ \E t \in Tasks : PresenceStep(t)
    \/ \E c \in Tasks : ClientClose(c)
SpecDevices == InitDevices /\ [][NextDevices]_vars

\* Presence with every durable choice of user 1: preferred_status online or
\* offline (invisible mode), hide_status clear or set
InitStatus == InitWith(Layout(<< {"update", "personal"}, {"personal"}, {"none"} >>),
                       [Tasks -> {1}], {"online", "offline"}, {FALSE, TRUE})
SpecStatus == InitStatus /\ [][NextPresence]_vars

\* Voice: direct callers of the VoiceManager (as tests/test_voice.py) in two
\* voice channels; each connects, makes update_state and relay calls and
\* disconnects
VoiceChannels == {1, 2}
\* task 1 acts for user 1 in channel 1, task 2 for either user in either
\* channel
VoiceUsers == {u \in [Tasks -> Users] : \A t \in Tasks : t # 2 => u[t] = 1}
VoiceRooms == {r \in [Tasks -> {<< <<"voice", c>> >> : c \in VoiceChannels}] :
                  \A t \in Tasks : t # 2 => r[t][1][2] = 1}
InitVoiceWith(KS, US, RS) ==
    /\ kind \in KS
    /\ uid \in US
    /\ trooms \in RS
    /\ pc = [t \in Tasks |-> FirstPc(kind[t])]
    /\ running = NoTask
    /\ exc = [t \in Tasks |-> FALSE]
    /\ ci = [t \in Tasks |-> 1]
    /\ nmsg = [t \in Tasks |-> 0]
    /\ rooms = EmptyDict
    /\ lock = NoTask
    /\ open = [t \in Tasks |-> TRUE]
    /\ accepted = [t \in Tasks |-> FALSE]
    /\ inbox = [t \in Tasks |-> << >>]
    /\ bc = [t \in Tasks |-> NoBc]
    /\ ndisc = [t \in Tasks |-> 0]
    /\ reg = [t \in Tasks |-> {}]
    /\ status = [u \in Users |-> "offline"]
    /\ preferred = [u \in Users |-> "online"]
    /\ hide = [u \in Users |-> FALSE]
    /\ row = [t \in Tasks |-> NoRow]
    /\ vrooms = EmptyDict
    /\ vlock = NoTask
    /\ vdisc = [t \in Tasks |-> 0]
    /\ part = [t \in Tasks |-> NewFlags]
    /\ hist = NoHist
InitVoice == InitVoiceWith(Layout(<< {"vcaller"}, {"vcaller"}, {"none"} >>),
                           VoiceUsers, VoiceRooms)
NextVoice ==
    \/ \E t \in Tasks : VoiceStep(t)
    \/ \E t \in Tasks : VUpdate(t)
    \/ \E t \in Tasks : VRelay(t)
    \/ \E c \in Tasks : ClientClose(c)
SpecVoice == InitVoice /\ [][NextVoice]_vars

\* Direct callers of VoiceManager that only connect and disconnect: tasks 1 and
\* 2 are two connections of user 1, the others are connections of user 2, all
\* in voice channel 1.
JoinUsers == [t \in Tasks |-> IF t <= 2 THEN 1 ELSE 2]
InitJoin == InitVoiceWith(Layout(<< {"vcaller"} >>), {JoinUsers},
                          {[t \in Tasks |-> << <<"voice", 1>> >>]})
NextJoin ==
    \/ \E t \in Tasks : VoiceStep(t)
    \/ \E c \in Tasks : ClientClose(c)
SpecJoin == InitJoin /\ [][NextJoin]_vars

\* ---- connect-time checks (ws.py:45-71, 92-96, 148-168, 204-209, 279-295;
\*      voice.py:57-62, 129-153) -------------------------------------------------
\* decode_access_token / the ApiToken lookup: user 0 stands for a token that
\* names no user
NoUser == 0
\* Channel rows: the channels of VoiceChannels are voice channels, channel 3
\* is a text channel, no other channel exists
ChannelType(c) ==
    CASE c \in VoiceChannels -> "voice"
      [] c = 3 -> "text"
      [] OTHER -> "none"

\* checks that let every user into every server and voice channel
CloseCodeNoMembership(k, u, r) ==
    CASE k = "voice_ws" /\ ChannelType(r[2]) = "none" -> 4004
      [] k = "voice_ws" /\ ChannelType(r[2]) # "voice" -> 4005
      [] OTHER -> 0

\* the code the handler of kind k closes the connection of user u with after
\* authentication, 0 when it goes on to connect: server_ws looks up the
\* ServerMember row (ws.py:154-165); voice_ws looks up the Channel row, its
\* type and then the ServerMember row (voice.py:135-150); the other handlers
\* check nothing
CloseCode(k, u, r) ==
    CASE k = "server" /\ r[2] \notin MemberOf(u) -> 4003
      [] k = "voice_ws" /\ ChannelType(r[2]) = "none" -> 4004
      [] k = "voice_ws" /\ ChannelType(r[2]) # "voice" -> 4005
      [] k = "voice_ws" /\ ChannelServer(r[2]) \notin MemberOf(u) -> 4003
      [] OTHER -> 0

\* user_id = await _authenticate_ws(ws, token); if user_id is None: return
Auth(t) ==
    /\ pc[t] = "auth" /\ Turn(t)
    /\ IF uid[t] = NoUser
       THEN /\ hist' = [hist EXCEPT !.code[t] = 4001]
            /\ Go(t, "done")
       ELSE /\ hist' = hist
            /\ Go(t, IF kind[t] \in {"server", "bot", "voice_ws"} THEN "check"
                     ELSE FirstPc(kind[t]))
    /\ UNCHANGED <<cfg, exc, ci, nmsg, rooms, lock, accepted, inbox, bc, ndisc, reg, db,
                   row, voice>>

\* the database lookups after authentication and the close they lead to
Check(t) ==
    /\ pc[t] = "check" /\ Turn(t)
    /\ LET code == CloseCode(kind[t], uid[t], trooms[t][1])
       IN IF code # 0
          THEN /\ hist' = [hist EXCEPT !.code[t] = code]
               /\ Go(t, "done")
          ELSE /\ hist' = hist
               /\ Go(t, FirstPc(kind[t]))
    /\ UNCHANGED <<cfg, exc, ci, nmsg, rooms, lock, accepted, inbox, bc, ndisc, reg, db,
                   row, voice>>

\* Gate: handlers from their first statement, for a valid or an invalid
\* token, members and non-members, and for voice_ws a voice channel, a text
\* channel and a missing channel; task 3 may be a direct caller of the
\* VoiceManager
GateChannels == {1, 3, 4}
GateKinds == Layout(<< {"server", "voice_ws"}, {"channel", "server", "voice_ws", "bot"},
                       {"channel", "voice_ws", "vcaller"} >>)
InitGate ==
    /\ kind \in GateKinds
    /\ uid \in [Tasks -> Users \cup {NoUser}]
    /\ \A t \in Tasks : kind[t] = "vcaller" => uid[t] = 2
    /\ trooms \in [Tasks -> {RoomsOf(k, u) : k \in WsKinds, u \in Users \cup {NoUser}}
                              \cup {<< <<"voice", c>> >> : c \in GateChannels}]
    /\ \A t \in Tasks :
          CASE kind[t] = "voice_ws" -> trooms[t][1][1] = "voice"
            [] kind[t] = "vcaller" -> trooms[t] = << <<"voice", 1>> >>
            [] OTHER -> trooms[t] = RoomsOf(kind[t], uid[t])
    /\ pc = [t \in Tasks |-> IF kind[t] \in WsKinds \cup {"voice_ws"} THEN "auth"
                              ELSE FirstPc(kind[t])]
    /\ running = NoTask
    /\ exc = [t \in Tasks |-> FALSE]
    /\ ci = [t \in Tasks |-> 1]
    /\ nmsg = [t \in Tasks |-> 0]
    /\ rooms = EmptyDict
    /\ lock = NoTask
    /\ open = [t \in Tasks |-> TRUE]
    /\ accepted = [t \in Tasks |-> FALSE]
    /\ inbox = [t \in Tasks |-> << >>]
    /\ bc = [t \in Tasks |-> NoBc]
    /\ ndisc = [t \in Tasks |-> 0]
    /\ reg = [t \in Tasks |-> {}]
    /\ status = [u \in Users |-> "offline"]
    /\ preferred = [u \in Users |-> "online"]
    /\ hide = [u \in Users |-> FALSE]
    /\ row = [t \in Tasks |-> NoRow]
    /\ vrooms = EmptyDict
    /\ vlock = NoTask
    /\ vdisc = [t \in Tasks |-> 0]
    /\ part = [t \in Tasks |-> NewFlags]
    /\ hist = NoHist
NextGate ==
    \/ \E t \in Tasks : Auth(t)
    \/ \E t \in Tasks : Check(t)
    \/ \E t \in Tasks : ManagerStep(t)
    \/ \E t \in Tasks : BroadcastStep(t)
    \/ \E t \in Tasks : HandlerStep(t)
    \/ \E t \in Tasks : HeartbeatStep(t)
    \/ \E t \in Tasks : VoiceStep(t)
    \/ \E c \in Tasks : ClientClose(c)
SpecGate == InitGate /\ [][NextGate]_vars

\* ---- bodies of the receive loops (ws.py:100-118, 232-243, 298-310;
\*      voice.py:167-211) ------------------------------------------------------
_RELAY_TYPES == {"offer", "answer", "ice_candidate"}
_STATE_TYPES == {"mute", "deafen", "screen_share", "webcam"}
\* texts a client may send.  json: "bad" is no JSON text, "scalar" a JSON
\* value that is no object (number, string, list, null), "object" an object;
\* of an object: type is "absent", "nonstring" or the string itself; to is
\* "absent", the empty string, a string that is no UUID or the UUID of
\* user 1 or 2; field names the one flag member the object has ("none": it
\* has none) and val is that member, the JSON true or false or a string
RawTypes == {"absent", "nonstring", "typing", "ping", "other"} \cup _RELAY_TYPES \cup _STATE_TYPES
RawTos == {"absent", "", "junk", "1", "2"}
RawFields == {"none", "is_muted", "is_deafened", "enabled"}
RawVals == {"true", "false", "text"}
Raws ==
    {[NoRaw EXCEPT !.json = j] : j \in {"bad", "scalar"}}
    \cup [json : {"object"}, type : RawTypes, to : RawTos, field : RawFields, val : RawVals]

\* what one pass of a loop body does: it goes on to the next receive
\* ("continue"), calls voice_manager.relay(channel_id, user_id, to, msg),
\* calls voice_manager.update_state(channel_id, user_id, flag=val), starts
\* the typing fan-out, answers pong, or raises out of the loop
Continue == [NoOut EXCEPT !.act = "continue"]
Raises == [NoOut EXCEPT !.act = "raise"]
Relays(to) == [NoOut EXCEPT !.act = "relay", !.to = to]
Updates(flag, val) == [NoOut EXCEPT !.act = "update_state", !.flag = flag, !.val = val]

\* uuid.UUID(str(to_raw)): the user the text names, 0 for ValueError
ParseUuid(x) == CASE x = "1" -> 1 [] x = "2" -> 2 [] OTHER -> 0
\* msg.get(name) of the flag member followed by isinstance(val, bool)
BoolMember(raw, name) == raw.field = name /\ raw.val \in {"true", "false"}

\* val = msg.get(name); if isinstance(val, bool): update_state(..., flag=val)
StateBranch(raw, name, flag) ==
    IF BoolMember(raw, name) THEN Updates(flag, raw.val = "true") ELSE Continue

\* voice.py:169-211.  json.loads raises JSONDecodeError on a text that is no
\* JSON (caught, line 172); on a JSON value that is no object msg.get raises
\* AttributeError (line 175), which no except clause of the loop catches
VoiceLoopBody(raw) ==
    CASE raw.json = "bad" -> Continue
      [] raw.json = "scalar" -> Raises
      [] raw.type \in {"absent", "nonstring"} -> Continue
      [] raw.type \in _RELAY_TYPES ->
            IF raw.to \in {"absent", ""} THEN Continue
            ELSE IF ParseUuid(raw.to) = 0 THEN Continue
            ELSE Relays(ParseUuid(raw.to))
      [] raw.type = "mute" -> StateBranch(raw, "is_muted", "is_muted")
      [] raw.type = "deafen" -> StateBranch(raw, "is_deafened", "is_deafened")
      [] raw.type = "screen_share" -> StateBranch(raw, "enabled", "is_sharing_screen")
      [] raw.type = "webcam" -> StateBranch(raw, "enabled", "is_sharing_webcam")
      [] OTHER -> Continue

\* ws.py:105-118: every exception of the body is caught and passed over
ChannelLoopBody(raw) ==
    IF raw.json = "object" /\ raw.type = "typing"
    THEN [NoOut EXCEPT !.act = "typing"] ELSE Continue

\* ws.py:238-243 and 303-308
HeartbeatLoopBody(raw) ==
    IF raw.json = "object" /\ raw.type = "ping"
    THEN [NoOut EXCEPT !.act = "pong"] ELSE Continue

LoopBody(h, raw) ==
    CASE h = "voice_ws" -> VoiceLoopBody(raw)
      [] h = "channel" -> ChannelLoopBody(raw)
      [] OTHER -> HeartbeatLoopBody(raw)

\* one pass of the receive loop of handler h with the text raw; an exception
\* that leaves the loop ends the handler
ReadText(t) ==
    /\ pc[t] = "l_in" /\ Turn(t) /\ kind[t] = "reader" /\ nmsg[t] < MaxMsgs
    /\ nmsg' = [nmsg EXCEPT ![t] = @ + 1]
    /\ \E h \in {"channel", "personal", "bot", "voice_ws"}, raw \in Raws :
         LET out == LoopBody(h, raw)
         IN /\ hist' = [hist EXCEPT !.loop[t] = [h |-> h, raw |-> raw, out |-> out]]
            /\ Go(t, IF out.act = "raise" THEN "crashed" ELSE "l_in")
    /\ UNCHANGED <<cfg, exc, ci, rooms, lock, accepted, inbox, bc, ndisc, reg, db, row, voice>>

\* Loop: one reader that passes a text through the body of a receive loop
InitLoop == InitWith(Layout(<< {"reader"}, {"none"} >>), {[t \in Tasks |-> 1]}, {"online"}, {FALSE})
NextLoop == \E t \in Tasks : ReadText(t)
SpecLoop == InitLoop /\ [][NextLoop]_vars

\* Order: a caller of two broadcasts in sequence, a channel_ws or server_ws
\* connection, then a channel_ws connection or another caller
InitOrder == InitWith(Layout(<< {"bcast2"}, {"channel", "server"}, {"channel", "bcast"} >>),
                      AnyUser, {"online"}, {FALSE})
NextOrder ==
    \/ \E t \in Tasks : ManagerStep(t)
    \/ \E t \in Tasks : BroadcastStep(t)
    \/ \E t \in Tasks : BcastCall(t)
    \/ \E t \in Tasks : BcastTwice(t)
    \/ \E t \in Tasks : HandlerStep(t)
    \/ \E c \in Tasks : ClientClose(c)
SpecOrder == InitOrder /\ [][NextOrder]_vars

\* Registry: direct callers of ConnectionManager.connect and disconnect with
\* stub connections, each call on any room and any connection
InitRegistry == InitWith(Layout(<< {"mcaller"} >>), {[t \in Tasks |-> 1]}, {"online"}, {FALSE})
NextRegistry ==
    \/ \E t \in Tasks : MConnect(t)
    \/ \E t \in Tasks : MDisconnect(t)
SpecRegistry == InitRegistry /\ [][NextRegistry]_vars

\* ==== properties =================================================================
\* the connections registered in a room, the participant objects of a channel
Members(r) == Get(rooms, r, {})
Participants(c) == LET r == Get(vrooms, c, EmptyRoom) IN {r[u] : u \in DOMAIN r}
InSomeRoom(t) == \E r \in DOMAIN rooms : t \in rooms[r]
InSomeVoiceRoom(t) == \E c \in DOMAIN vrooms : t \in Participants(c)

\* C1: in every reachable state of both registries no room key is present
\* with zero members (so a room whose only member joined and left is absent).
C1_NoEmptyRoom ==
    /\ \A r \in DOMAIN rooms : rooms[r] # {}
    /\ \A c \in DOMAIN vrooms : DOMAIN vrooms[c] # {}

\* a channel/server connection joined and left and its room is gone, and a
\* voice participant joined and left and its voice room is gone
C1_Witness ==
    /\ \E t \in Tasks : /\ kind[t] \in {"channel", "server"}
                        /\ reg[t] # {} /\ ndisc[t] = 1
                        /\ \A r \in reg[t] : r \notin DOMAIN rooms
    /\ \E t \in Tasks : /\ kind[t] = "vcaller"
                        /\ reg[t] # {} /\ vdisc[t] = 1
                        /\ VChan(t) \notin DOMAIN vrooms

\* C2: once manager.connect registered a channel_ws, server_ws or personal_ws
\* connection, every way the handler ends has run manager.disconnect exactly
\* once and leaves the connection a member of no room.
C2_CleanupOnEveryExit ==
    \A t \in Tasks :
        (kind[t] \in {"channel", "server", "personal"} /\ pc[t] \in Ended /\ reg[t] # {})
            => (ndisc[t] = 1 /\ ~InSomeRoom(t))

\* C3: a bot_gateway_ws connection in its receive loop is registered in the
\* owner's personal room and every server room of the owner, and after any
\* exit of the handler it is a member of no room.
C3_BotRoomsJoinedAndLeft ==
    \A t \in Tasks :
        kind[t] = "bot" =>
            /\ (pc[t] \in {"recv", "pong"} /\ open[t])
                   => \A i \in 1..Len(trooms[t]) : t \in Members(trooms[t][i])
            /\ pc[t] \in Ended => ~InSomeRoom(t)

\* C4: when a voice_ws handler that completed voice_manager.connect has ended,
\* voice_manager.disconnect ran exactly once for it and no voice room holds
\* its participant.
C4_VoiceParticipantOnlyWhileOpen ==
    \A t \in Tasks :
        (kind[t] = "voice_ws" /\ pc[t] \in Ended /\ reg[t] # {})
            => (vdisc[t] = 1 /\ ~InSomeVoiceRoom(t))

\* the awaits of network I/O: accept, send_text, receive_text
NetIOPcs == {"c_accept", "vc_accept", "b_send", "vb_send", "vc_members", "pong", "recv"}

\* C5: no task awaits network I/O while it holds the membership lock of either
\* manager; a lock is held only across the insert/remove of connect and
\* disconnect.
C5_NoIOUnderLock ==
    /\ \A t \in Tasks : pc[t] \in NetIOPcs => (lock # t /\ vlock # t)
    /\ lock # NoTask => pc[lock] \in {"c_add", "d_rm", "b_prm"}
    /\ vlock # NoTask => pc[vlock] \in {"vc_add", "vd_rm"}

\* a task holds the membership lock while another task's send is in flight
C5_Witness ==
    /\ lock # NoTask
    /\ \E t \in Tasks : pc[t] = "b_send" /\ t # lock

\* C6: when a broadcast call returns, every member of its snapshot was sent
\* the event or its send raised; the call did not raise; every connection
\* whose send raised is out of the room, and the room is gone if that emptied
\* it.
C6_FailedSendPruned ==
    \A t \in Tasks :
        /\ kind[t] = "bcast" => pc[t] # "crashed"
        /\ pc[t] = "b_ret" =>
              /\ bc[t].ok \cup bc[t].failed = bc[t].mem0
              /\ \A d \in bc[t].ok :
                    \E i \in 1..Len(inbox[d[2]]) : inbox[d[2]][i] = Dumps(bc[t].ev)
              /\ \A d \in bc[t].failed :
                    /\ d[2] \notin Members(d[1])
                    /\ d[1] \in DOMAIN rooms => rooms[d[1]] # {}

\* a call returns after one send raised and another was delivered
C6_Witness ==
    \E t \in Tasks : pc[t] = "b_ret" /\ bc[t].failed # {} /\ bc[t].ok # {}

C8_SerializedOnce ==
    \A t \in Tasks :
        pc[t] \in {"b_send", "b_prune", "b_prm", "b_ret"} => bc[t].nser = 1

\* a broadcast_to_users call returns after it delivered to two user rooms
C8_Witness ==
    \E t \in Tasks :
        /\ pc[t] = "b_ret" /\ Head(bc[t].calls).api = "to_users"
        /\ \E d, e \in bc[t].ok : d[1] # e[1]

\* what other users see of user u, and the live connections of u's room
Visible(u) == IF hide[u] THEN "offline" ELSE status[u]
\* every task is done or waits in its receive loop on an open transport
Quiet == \A t \in Tasks : pc[t] = "done" \/ (pc[t] = "recv" /\ open[t])

\* C9: when every handler and request is idle, the visible status of a user
\* whose preferred_status is not offline is offline iff the user's personal
\* room is empty or hide_status is set, and otherwise equals preferred_status.
C9_VisibleStatus ==
    Quiet =>
        \A u \in Users :
            preferred[u] # "offline" =>
                /\ (Visible(u) = "offline") <=> (Members(user_room(u)) = {} \/ hide[u])
                /\ Visible(u) # "offline" => Visible(u) = preferred[u]

\* C10: with only personal_ws handlers of the user, once they are idle and the
\* personal room is non-empty with preferred_status other than offline, the
\* stored status is not offline.
C10_ReconnectNotOffline ==
    (/\ \A t \in Tasks : kind[t] \in {"personal", "none"}
     /\ Quiet)
        => \A u \in Users :
              (Members(user_room(u)) # {} /\ preferred[u] # "offline")
                  => status[u] # "offline"

\* ---- presence history -----------------------------------------------------------
RECURSIVE SumSent(_)
\* the number of calls logged under the keys K
SumSent(K) ==
    IF K = {} THEN 0
    ELSE LET k == CHOOSE x \in K : TRUE IN hist.sent[k] + SumSent(K \ {k})

\* the rooms broadcast_presence sends to for user u: servers and friends
OutRooms(u) == {server_room(x) : x \in MemberOf(u)} \cup {user_room(f) : f \in FriendsOf(u)}
\* how many user.status_changed calls of user u with status st went to room r
Outward(u, r, st) ==
    SumSent({k \in DOMAIN hist.sent : k[2] = r /\ k[3].user = u /\ k[3].val = st})
\* how many of them task t made for its continuation `phase`
OutwardBy(t, phase, r, st) ==
    SumSent({k \in DOMAIN hist.sent :
                k[1] \in phase /\ k[2] = r /\ k[3].src = t /\ k[3].val = st})
\* only personal_ws handlers run, none has left its receive loop or crashed
OnlyConnects ==
    \A t \in Tasks : kind[t] \in {"personal", "none"} /\ hist.how[t] = "" /\ pc[t] # "crashed"

\* C11: user 1 starts with no connection, status offline and hide_status clear.
\* While personal connections are only opened: with preferred_status online
\* each server and friend room is sent at most one user.status_changed online,
\* and exactly one once the opened connections wait in their loops; with
\* preferred_status offline nothing is broadcast and the status stays offline.
C11_FirstConnectBroadcastsOnce ==
    (OnlyConnects /\ ~hide[1]) =>
        /\ preferred[1] = "online" =>
              \A r \in OutRooms(1) :
                  /\ Outward(1, r, "online") <= 1
                  /\ ((\E t \in Tasks : pc[t] = "recv")
                       /\ (\A t \in Tasks : kind[t] = "personal" => pc[t] \in {"c_accept", "recv"}))
                         => Outward(1, r, "online") = 1
        /\ preferred[1] = "offline" => (hist.sent = NoHist.sent /\ status[1] = "offline")

\* C12: while hide_status of user 1 is set, every user.status_changed about
\* user 1 sent to a server room or a friend's personal room carries offline.
C12_HiddenStatusNeverLeaks ==
    hide[1] =>
        \A k \in DOMAIN hist.sent :
            (k[3].user = 1 /\ k[2] # user_room(1)) => k[3].val = "offline"

\* t's finally block found its room empty and read a status other than offline
Did(t) == hist.seen[t] = "empty" /\ hist.read[t] \notin {"", "offline"}
\* the offline broadcasts t's finally block made to room r
OfflineSent(t, r) == OutwardBy(t, Ended, r, "offline")
\* t is a personal_ws handler that left its loop by close or timeout and returned
EndedNormally(t) ==
    kind[t] = "personal" /\ pc[t] = "done" /\ hist.how[t] \in {"close", "timeout"}

\* the handler that found its room empty and the status not offline sent each
\* server and friend room one offline event; any other handler sent none, and
\* one that found another connection in the room read and wrote nothing
C13_Outcome ==
    \A t \in Tasks :
        EndedNormally(t) =>
            /\ \A r \in OutRooms(uid[t]) : OfflineSent(t, r) = IF Did(t) THEN 1 ELSE 0
            /\ hist.seen[t] = "others" => hist.read[t] = ""
\* the commit of the offline transition stores offline; the step that finds
\* another connection in the room ends the handler and writes nothing
C13_Step ==
    \A t \in Tasks :
        /\ (pc[t] = "p_off_commit" /\ pc'[t] \notin {"p_off_commit", "crashed"})
               => status'[uid[t]] = "offline"
        /\ (kind[t] = "personal" /\ pc[t] = "d_rm" /\ hist'.seen[t] = "others")
               => (pc'[t] \in Ended /\ status' = status /\ hist'.sent = hist.sent)

\* C13: a personal connection that ends by close or timeout with its room
\* empty stores offline and, if the status read was not offline, broadcasts
\* offline exactly once to servers and friends; with another connection in
\* the room it changes nothing and broadcasts nothing.
C13_LastConnectionLeaves == [](C13_Outcome) /\ [][C13_Step]_vars

\* one handler made the offline transition, another ended with a connection left
C13_Witness ==
    \E t, o \in Tasks :
        /\ EndedNormally(t) /\ Did(t) /\ status[uid[t]] = "offline"
        /\ \A r \in OutRooms(uid[t]) : OfflineSent(t, r) = 1
        /\ EndedNormally(o) /\ hist.seen[o] = "others"

\* preferred_status changes only in the commit of update_me
C14_Frame ==
    preferred' # preferred =>
        \E t \in Tasks : kind[t] = "update" /\ pc[t] = "u_commit" /\ pc'[t] = "u_refresh"
\* with no update_me request around, the restore step of a connect leaves the
\* stored status equal to preferred_status
C14_Restore ==
    \A t \in Tasks :
        (/\ \A x \in Tasks : kind[x] \in {"personal", "none"}
         /\ pc[t] \in {"p_get", "p_commit"}
         /\ pc'[t] \notin {"p_get", "p_commit", "crashed"})
            => status'[uid[t]] = preferred[uid[t]]

\* C14: no connect, close or timeout of a personal connection changes
\* preferred_status, only update_me does; so the restore step of a reconnect
\* after the last connection was lost stores the preferred status again.
C14_PreferredKept == [][C14_Frame /\ C14_Restore]_vars

\* the last connection was lost (offline stored), then another connection of
\* the user restored online
C14_Witness ==
    \E t, o \in Tasks :
        /\ EndedNormally(t) /\ Did(t)
        /\ kind[o] = "personal" /\ pc[o] = "recv" /\ o \in Members(user_room(uid[o]))
        /\ uid[o] = uid[t]
        /\ \E k \in DOMAIN hist.sent : k[1] = "recv" /\ k[3].src = o /\ k[3].val = "online"
        /\ status[uid[o]] = "online" /\ preferred[uid[o]] = "online"

\* the statements a handler is at after it left its receive loop
FinallyPcs == {"d_lock", "d_rm", "p_off_get", "p_off_commit", "bp_servers", "bp_friends",
               "b_begin", "b_send", "b_prune", "b_prm", "b_ret", "done", "crashed"}
\* a timeout and a close leave the loop in the same way: into the finally
\* block, no exception pending, nothing else changed
C15_Step ==
    \A t \in Tasks :
        (kind[t] = "personal" /\ hist.how[t] = "" /\ hist'.how[t] \in {"timeout", "close"})
            => /\ pc'[t] = "d_lock" /\ exc'[t] = FALSE
               /\ rooms' = rooms /\ status' = status /\ preferred' = preferred
               /\ hist'.sent = hist.sent /\ inbox' = inbox
\* a handler that timed out is past its loop; when it has returned it ran
\* disconnect once and is in no room; a handler that timed out and one that
\* was closed, having found the same room and status, made the same broadcasts
C15_Outcome ==
    \A t \in Tasks :
        (kind[t] = "personal" /\ hist.how[t] = "timeout") =>
            /\ pc[t] \in FinallyPcs
            /\ pc[t] = "done" => (ndisc[t] = 1 /\ ~InSomeRoom(t))
            /\ \A o \in Tasks :
                  (/\ EndedNormally(t) /\ EndedNormally(o) /\ hist.how[o] = "close"
                   /\ uid[o] = uid[t]
                   /\ hist.seen[o] = hist.seen[t] /\ hist.read[o] = hist.read[t])
                      => /\ ndisc[o] = ndisc[t]
                         /\ \A r \in OutRooms(uid[t]) : OfflineSent(o, r) = OfflineSent(t, r)

\* C15: a heartbeat timeout ends the handler of a personal connection through
\* the same finally block as a transport close, with the same room
\* membership, stored status and broadcasts.
C15_TimeoutLikeClose == [](C15_Outcome) /\ [][C15_Step]_vars

\* one connection timed out, another was closed, and each made the offline
\* transition
C15_Witness ==
    \E t, o \in Tasks :
        /\ EndedNormally(t) /\ hist.how[t] = "timeout" /\ Did(t)
        /\ EndedNormally(o) /\ hist.how[o] = "close" /\ Did(o)
        /\ \A r \in OutRooms(uid[t]) : OfflineSent(t, r) = 1 /\ OfflineSent(o, r) = 1

\* ---- what the voice connections received ------------------------------------
\* the events of type ty that call id of task s put into the inbox of c
Got(c, ty, s, id) ==
    {inbox[c][i][2] : i \in {j \in 1..Len(inbox[c]) :
                                /\ inbox[c][j][2].type = ty
                                /\ inbox[c][j][2].src = s
                                /\ inbox[c][j][2].val = id}}
\* and how many of them there are
Received(c, ty, s, id) ==
    Cardinality({j \in 1..Len(inbox[c]) :
                    /\ inbox[c][j][2].type = ty
                    /\ inbox[c][j][2].src = s
                    /\ inbox[c][j][2].val = id})
\* connect has returned to its caller
ConnectedPcs == {"v_in", "vd_lock", "vd_rm"}

\* C16: when connect of N returns, N (if its connection is up) has received
\* one voice.members event that lists the users registered when N was stored,
\* N included; every participant that was there before N and still is has
\* received exactly one voice.user_joined naming N; N has received none.
C16_ConnectAnnounces ==
    \A t \in Tasks :
        hist.vcall[t].op = "connect" =>
            LET pre == hist.vcall[t].snap
            IN /\ \A e \in Got(t, "voice.members", t, "") :
                     {d.user_id : d \in e.data} = {uid[p] : p \in pre} \cup {uid[t]}
               /\ Received(t, "voice.user_joined", t, "") = 0
               /\ \A p \in Tasks :
                     /\ Received(p, "voice.user_joined", t, "") <= 1
                     /\ \A e \in Got(p, "voice.user_joined", t, "") :
                           \A d \in e.data : d.user_id = uid[t]
               /\ pc[t] \in ConnectedPcs =>
                     /\ Live(t) => Received(t, "voice.members", t, "") = 1
                     /\ \A p \in pre :
                           (Live(p) /\ p \in Participants(VChan(t)))
                              => Received(p, "voice.user_joined", t, "") = 1

\* a connect into a room with participants has returned, the joiner holds the
\* member list and each earlier participant one voice.user_joined
C16_Witness ==
    \E t \in Tasks :
        /\ hist.vcall[t].op = "connect" /\ pc[t] = "v_in"
        /\ hist.vcall[t].snap # {}
        /\ Received(t, "voice.members", t, "") = 1
        /\ \A p \in hist.vcall[t].snap : Received(p, "voice.user_joined", t, "") = 1

\* the voice.user_left events naming user u that connection p received
LeftEvents(p, u) ==
    {<<t, j>> \in Tasks \X (1..Len(inbox[p])) :
        /\ uid[t] = u
        /\ inbox[p][j][2].type = "voice.user_left"
        /\ inbox[p][j][2].src = t}
\* the disconnect calls that removed the participant entry of user u
Departures(u) ==
    {t \in Tasks : /\ uid[t] = u /\ hist.vcall[t].op = "disconnect"
                   /\ hist.vcall[t].tgt # NoTask}

\* C17: a connection never holds more voice.user_left events naming a user
\* than that user has had departures (disconnect calls that removed its
\* participant entry), the departed connection holds none, and the event
\* carries the user id only.
C17_OneLeftPerDeparture ==
    /\ \A p \in Tasks : \A u \in Users :
          Cardinality(LeftEvents(p, u)) <= Cardinality(Departures(u))
    /\ \A t \in Tasks :
          hist.vcall[t].op = "disconnect" =>
             /\ Received(t, "voice.user_left", t, "") = 0
             /\ \A p \in Tasks : \A e \in Got(p, "voice.user_left", t, "") :
                   e.user = uid[t] /\ e.data = {}

\* task t has this step made a call of operation op to the voice manager
Calls(t, op) ==
    /\ hist'.vcall[t].op = op
    /\ hist'.vcall[t].id # hist.vcall[t].id
\* the users that have an entry in voice room c
InRoom(c) == DOMAIN Get(vrooms, c, EmptyRoom)

\* the step of update_state: the participant is that of the calling user in
\* the given room; each flag supplied takes the value supplied, every other
\* flag of every participant keeps its value, and the event holds the flags
\* as they are after the assignment; without an entry nothing changes
C18_Step ==
    \A t \in Tasks :
        Calls(t, "update") =>
            LET c == hist'.vcall[t]
                p == c.tgt
            IN /\ (p = NoTask) = (uid[t] \notin InRoom(VChan(t)))
               /\ vrooms' = vrooms
               /\ p = NoTask =>
                     /\ part' = part /\ inbox' = inbox /\ bc' = bc
                     /\ c.snap = {} /\ pc'[t] = "v_in"
               /\ p # NoTask =>
                     /\ vrooms[VChan(t)][uid[t]] = p
                     /\ \A q \in Tasks \ {p} : part'[q] = part[q]
                     /\ \A f \in DOMAIN part[p] :
                           part'[p][f] = IF f \in DOMAIN c.arg THEN c.arg[f] ELSE part[p][f]
                     /\ c.snap = Participants(VChan(t)) /\ p \in c.snap
                     /\ bc'[t].ev.type = "voice.state_changed"
                     /\ bc'[t].ev.data = {[user_id |-> uid[t], flags |-> part'[p]]}

\* what an update_state call has sent: at most one event to each participant
\* it found and none to anyone else, each with the supplied values; once it
\* has returned, every participant found whose connection is up holds one
C18_Outcome ==
    \A t \in Tasks :
        hist.vcall[t].op = "update" =>
            LET c == hist.vcall[t]
            IN /\ \A q \in Tasks :
                     /\ Received(q, "voice.state_changed", t, c.id)
                           <= (IF q \in c.snap THEN 1 ELSE 0)
                     /\ \A e \in Got(q, "voice.state_changed", t, c.id) :
                           \A d \in e.data :
                              /\ d.user_id = uid[t]
                              /\ DOMAIN d.flags = DOMAIN NewFlags
                              /\ \A f \in DOMAIN c.arg : d.flags[f] = c.arg[f]
               /\ pc[t] \in ConnectedPcs =>
                     \A q \in c.snap :
                        Live(q) => Received(q, "voice.state_changed", t, c.id) = 1

\* C18: update_state assigns exactly the flags supplied on the caller's
\* participant, leaves every other flag unchanged, and sends each participant
\* of the room, the caller's included, one voice.state_changed with the
\* state after the update; for a user without entry it changes and sends
\* nothing.
C18_UpdateState == [](C18_Outcome) /\ [][C18_Step]_vars

\* an update in a room of two has returned and both hold its event
C18_Witness ==
    \E t \in Tasks :
        /\ hist.vcall[t].op = "update" /\ pc[t] = "v_in"
        /\ Cardinality(hist.vcall[t].snap) = 2
        /\ hist.vcall[t].tgt \in hist.vcall[t].snap
        /\ \A q \in hist.vcall[t].snap :
              Received(q, "voice.state_changed", t, hist.vcall[t].id) = 1

\* the step of relay: the target is the entry of to_user in the given room,
\* and the call changes neither the rooms nor any participant
C19_Step ==
    \A t \in Tasks :
        Calls(t, "relay") =>
            LET c == hist'.vcall[t]
            IN /\ vrooms' = vrooms /\ part' = part
               /\ c.tgt # NoTask =>
                     /\ c.to \in InRoom(VChan(t))
                     /\ vrooms[VChan(t)][c.to] = c.tgt

\* what a relay that found its target has sent: nothing to any connection
\* but the target's, to the target at most one message, whose fields are
\* those of the payload except `from`, which is the sender's id; once it has
\* returned, a target whose connection is up holds exactly one
C19_Outcome ==
    \A t \in Tasks :
        (hist.vcall[t].op = "relay" /\ hist.vcall[t].tgt # NoTask) =>
            LET c == hist.vcall[t]
            IN /\ \A q \in Tasks \ {c.tgt} : Received(q, "voice.relay", t, c.id) = 0
               /\ Received(c.tgt, "voice.relay", t, c.id) <= 1
               /\ \A e \in Got(c.tgt, "voice.relay", t, c.id) :
                     \A d \in e.data :
                        /\ DOMAIN d = (DOMAIN c.arg) \cup {"from"}
                        /\ d.from = ToString(uid[t])
                        /\ \A k \in (DOMAIN c.arg) \ {"from"} : d[k] = c.arg[k]
               /\ (pc[t] \in ConnectedPcs /\ Live(c.tgt))
                     => Received(c.tgt, "voice.relay", t, c.id) = 1

\* C19: relay(room, A, B, payload) with B in the room delivers exactly one
\* message to B's connection, the payload with `from` set to A's id, and
\* nothing to any other connection of this or another room; B is looked up
\* in the given room only.
C19_RelayToTarget == [](C19_Outcome) /\ [][C19_Step]_vars

\* a relay to another participant, with a `from` of the client's own in the
\* payload, has returned and the target holds the message
C19_Witness ==
    \E t \in Tasks :
        /\ hist.vcall[t].op = "relay" /\ pc[t] = "v_in"
        /\ hist.vcall[t].tgt \notin {NoTask, t}
        /\ "from" \in DOMAIN hist.vcall[t].arg
        /\ Received(hist.vcall[t].tgt, "voice.relay", t, hist.vcall[t].id) = 1

\* the step of a relay whose target user has no entry in the room: no target
\* is found, nothing is sent or queued, nothing is raised, the tables stay
C20_Step ==
    \A t \in Tasks :
        (Calls(t, "relay") /\ hist'.vcall[t].to \notin InRoom(VChan(t))) =>
            /\ hist'.vcall[t].tgt = NoTask
            /\ inbox' = inbox /\ bc' = bc
            /\ vrooms' = vrooms /\ part' = part
            /\ exc' = exc /\ pc'[t] = "v_in"

\* nobody ever holds a message of a relay that found no target
C20_Outcome ==
    \A t \in Tasks :
        (hist.vcall[t].op = "relay" /\ hist.vcall[t].tgt = NoTask) =>
            \A q \in Tasks : Received(q, "voice.relay", t, hist.vcall[t].id) = 0

\* C20: relay to a user who has no entry in the room returns without raising,
\* sends nothing to anyone, the sender included, and leaves the participant
\* table unchanged.
C20_RelayMissingTarget == [](C20_Outcome) /\ [][C20_Step]_vars

\* a relay found no target because the target user had just disconnected
\* from that room
C20_Witness ==
    \E t, o \in Tasks :
        /\ hist.vcall[t].op = "relay" /\ hist.vcall[t].tgt = NoTask
        /\ pc[t] = "v_in" /\ t \in Participants(VChan(t))
        /\ o # t /\ uid[o] = hist.vcall[t].to /\ VChan(o) = VChan(t)
        /\ hist.vcall[o].op = "disconnect" /\ hist.vcall[o].tgt = o

\* C21: every relayed signalling message a connection holds has as `from`
\* the authenticated user of the task that relayed it, whatever `from` the
\* client put into the payload.
C21_FromIsSender ==
    \A c \in Tasks : \A i \in 1..Len(inbox[c]) :
        inbox[c][i][2].type = "voice.relay" =>
            \A d \in inbox[c][i][2].data :
                d.from = ToString(uid[inbox[c][i][2].src])

\* another user's connection holds a relayed message whose payload named a
\* `from` of the client's own
C21_Witness ==
    \E c, t \in Tasks : \E i \in 1..Len(inbox[c]) :
        /\ uid[c] # uid[t]
        /\ inbox[c][i][2].type = "voice.relay" /\ inbox[c][i][2].src = t
        /\ hist.vcall[t].op = "relay"
        /\ "from" \in DOMAIN hist.vcall[t].arg
        /\ hist.vcall[t].arg.from # ToString(uid[t])

\* the rooms whose events the docstring of bot_gateway_ws promises to a bot:
\* the owner's personal room, the room of every server the owner belongs to
\* and the room of every channel of such a server
BotSources(b) ==
    {user_room(uid[b])}
        \cup {server_room(s) : s \in MemberOf(uid[b])}
        \cup {channel_room(c) : c \in {x \in Channels : ChannelServer(x) \in MemberOf(uid[b])}}

\* a broadcast that is entered while a bot connection is up (its handshake
\* is done, it has joined its first room, its handler runs and the client has
\* not closed) takes the bot into its snapshot
C29_Step ==
    \A t, b \in Tasks :
        (/\ pc[t] = "b_begin" /\ pc'[t] # "b_begin"
         /\ Head(bc[t].calls).api = "broadcast"
         /\ kind[b] = "bot" /\ Live(b) /\ reg[b] # {} /\ pc[b] \notin Ended
         /\ Head(bc[t].calls).rms[1] \in BotSources(b))
            => <<Head(bc[t].calls).rms[1], b>> \in bc'[t].mem0

\* and when the call returns every bot of its snapshot whose transport is up
\* holds the event
C29_Outcome ==
    \A t \in Tasks :
        pc[t] = "b_ret" =>
            \A d \in bc[t].mem0 :
                (kind[d[2]] = "bot" /\ Live(d[2]))
                    => \E i \in 1..Len(inbox[d[2]]) : inbox[d[2]][i] = Dumps(bc[t].ev)

\* C29: a bot connection that is up is delivered every event that is
\* broadcast to its owner's personal room, to the room of a server the
\* owner belongs to, or to the room of a channel of such a server.
C29_BotReceivesAll == [](C29_Outcome) /\ [][C29_Step]_vars

\* a connect or disconnect call of a direct caller was made this step
MCalled(t) == nmsg'[t] # nmsg[t] /\ kind[t] = "mcaller"

\* what one call does to the membership map
C28_Step ==
    \A t \in Tasks :
        MCalled(t) =>
            LET c == hist'.mcall[t]
                m == Get(rooms, c.room, {})
            IN /\ (c.op = "connect" /\ c.ws \in m) => rooms' = rooms
               /\ (c.op = "disconnect" /\ c.ws \notin m) => rooms' = rooms
               /\ c.op = "connect" => Get(rooms', c.room, {}) = m \cup {c.ws}
               /\ c.op = "disconnect" => Get(rooms', c.room, {}) = m \ {c.ws}
               /\ \A r \in (DOMAIN rooms \cup DOMAIN rooms') \ {c.room} :
                     Get(rooms', r, {}) = Get(rooms, r, {})
               /\ \A r \in DOMAIN rooms' : rooms'[r] # {}

\* C28: connect of a connection to a room it is already in, and disconnect of
\* a connection from a room it is not in (also a room the registry does not
\* hold), leave the membership map as it was; any other connect adds, and any
\* other disconnect removes, exactly that connection in exactly that room.
C28_MembershipIdempotent == [][C28_Step]_vars

\* one caller joined a connection to a room it was in, another removed a
\* connection from a room the registry no longer held
C28_Witness ==
    \E t, o \in Tasks :
        /\ hist.mcall[t].op = "connect" /\ hist.mcall[t].was
        /\ hist.mcall[o].op = "disconnect" /\ ~hist.mcall[o].was
        /\ hist.mcall[o].room \notin DOMAIN rooms

\* how often connection c holds the payload of event e
Copies(c, e) == Cardinality({i \in 1..Len(inbox[c]) : inbox[c][i] = Dumps(e)})
\* t is inside a call of the broadcaster
InCall(t) == pc[t] \in {"b_send", "b_prune", "b_prm", "b_ret"}

\* C26: a broadcast call starts a send only to connections that were members
\* of the room when it copied the membership (so neither to one that joined
\* later nor to one whose disconnect had completed), never twice to the same
\* connection and never again after a failed send; a connection holds the
\* event of a caller's single call at most once, and only if that call sent
\* it.
C26_AtMostOnce ==
    \A t \in Tasks :
        InCall(t) =>
            /\ bc[t].tried \subseteq bc[t].mem0
            /\ bc[t].ok \cup bc[t].failed \subseteq bc[t].tried
            /\ bc[t].ok \cap bc[t].failed = {}
            /\ \A w \in bc[t].snap : <<bc[t].room, w>> \notin bc[t].tried
            /\ pc[t] = "b_send" =>
                  /\ bc[t].cur \notin bc[t].snap
                  /\ <<bc[t].room, bc[t].cur>> \notin bc[t].ok \cup bc[t].failed
            /\ bc[t].ev.type = "ev" =>
                  \A c \in Tasks :
                     /\ Copies(c, bc[t].ev) <= 1
                     /\ Copies(c, bc[t].ev) = 1 => \E d \in bc[t].ok : d[2] = c

\* a call returns: one member of its snapshot holds the event once, and a
\* connection that joined the room during the fan-out holds none
C26_Witness ==
    \E t, c \in Tasks : \E d \in bc[t].ok :
        /\ pc[t] = "b_ret" /\ bc[t].ev.type = "ev"
        /\ Copies(d[2], bc[t].ev) = 1
        /\ c \in Members(d[1]) /\ <<d[1], c>> \notin bc[t].mem0
        /\ Live(c) /\ Copies(c, bc[t].ev) = 0

\* the typing.start events of task t that connection c holds
Typings(c, t) ==
    Cardinality({i \in 1..Len(inbox[c]) :
                    /\ inbox[c][i][2].type = "typing.start"
                    /\ inbox[c][i][2].src = t})

\* C27: a typing.start event names the user of the channel connection that
\* sent the typing message and is never delivered to that connection; the
\* call of broadcast_channel_except starts sends to the members of the
\* channel room at its snapshot other than the sender, and when it returns
\* each of them was delivered the event or was pruned after a failed send.
C27_TypingNotEchoed ==
    /\ \A c \in Tasks : \A i \in 1..Len(inbox[c]) :
          inbox[c][i][2].type = "typing.start" =>
             /\ inbox[c][i][2].src # c
             /\ kind[inbox[c][i][2].src] = "channel"
             /\ inbox[c][i][2].user = uid[inbox[c][i][2].src]
    /\ \A t, c \in Tasks : Typings(c, t) <= nmsg[t]
    /\ \A t \in Tasks :
          (InCall(t) /\ bc[t].excl # NoTask) =>
             /\ bc[t].excl = t /\ bc[t].ev.type = "typing.start"
             /\ bc[t].room = channel_room(1)
             /\ \A d \in bc[t].tried : d[2] # t /\ d \in bc[t].mem0
             /\ pc[t] = "b_ret" =>
                   /\ bc[t].ok \cup bc[t].failed = bc[t].mem0
                   /\ \A d \in bc[t].ok : Typings(d[2], t) >= 1
                   /\ \A d \in bc[t].failed : d[2] \notin Members(d[1])

\* a typing notice was fanned out: another member of the channel holds it,
\* the sender is still in the room and holds none
C27_Witness ==
    \E t \in Tasks : \E d \in bc[t].ok :
        /\ pc[t] = "b_ret" /\ bc[t].excl = t
        /\ t \in Members(bc[t].room)
        /\ Typings(d[2], t) = 1 /\ Typings(t, t) = 0

\* the positions at which connection c holds event number n of caller t
At(c, t, n) ==
    {i \in 1..Len(inbox[c]) : inbox[c][i] = Dumps(Ev("ev", t, 0, n, {}))}

\* C25: a connection never holds the second event of a caller's sequence
\* before the first; and when both calls have returned, every connection that
\* was a member of the room at the first call's copy and still is one (it
\* was a member throughout, a handler joins once), and whose transport is
\* up, holds the first event and after it the second.
C25_SameCallerOrder ==
    \A t, c \in Tasks :
        /\ \A i \in At(c, t, "1") : \A j \in At(c, t, "2") : i < j
        /\ Cardinality(At(c, t, "1")) <= 1 /\ Cardinality(At(c, t, "2")) <= 1
        /\ (kind[t] = "bcast2" /\ pc[t] = "done") =>
              \A d \in hist.first[t] :
                 (d[2] = c /\ c \in Members(d[1]) /\ Live(c))
                    => (At(c, t, "1") # {} /\ At(c, t, "2") # {})

\* both calls returned; a member throughout holds the two events in order
\* with an event of another task between them
C25_Witness ==
    \E t, c \in Tasks : \E d \in hist.first[t] :
        /\ kind[t] = "bcast2" /\ pc[t] = "done"
        /\ d[2] = c /\ c \in Members(d[1])
        /\ \E i \in At(c, t, "1") : \E j \in At(c, t, "2") : j > i + 1

\* the handlers that authenticate
Handlers == {t \in Tasks : kind[t] \in WsKinds \cup {"voice_ws"}}
\* connection t is in a registry
Registered(t) == reg[t] # {} \/ InSomeRoom(t) \/ InSomeVoiceRoom(t)
\* the checks of t's handler pass
Admitted(t) ==
    /\ uid[t] # NoUser
    /\ kind[t] = "server" => trooms[t][1][2] \in MemberOf(uid[t])
    /\ kind[t] = "voice_ws" =>
          /\ ChannelType(VChan(t)) = "voice"
          /\ ChannelServer(VChan(t)) \in MemberOf(uid[t])
\* the code that belongs to the first check t fails
Matching(t) ==
    CASE uid[t] = NoUser -> 4001
      [] kind[t] = "voice_ws" /\ ChannelType(VChan(t)) = "none" -> 4004
      [] kind[t] = "voice_ws" /\ ChannelType(VChan(t)) = "text" -> 4005
      [] OTHER -> 4003
C22_Outcome ==
    \A t \in Handlers :
        /\ Registered(t) => (Admitted(t) /\ hist.code[t] = 0)
        /\ hist.code[t] # 0 =>
              /\ ~Admitted(t) /\ hist.code[t] = Matching(t)
              /\ pc[t] = "done" /\ ~open[t] /\ ~accepted[t] /\ ~Registered(t)
        /\ (~Admitted(t) /\ pc[t] \in Ended) => hist.code[t] # 0
C22_Step ==
    (hist'.code # hist.code) => (rooms' = rooms /\ vrooms' = vrooms /\ reg' = reg)

\* C22: a connection is in a registry only if its token named a user and
\* the connect-time checks of its handler passed; a handler whose check
\* fails closes the connection with the code of that check (4001, 4004,
\* 4005, 4003 in the order of the checks), never accepts or registers it,
\* and the step that closes it changes neither registry.
C22_RegisteredAfterChecks == [](C22_Outcome) /\ [][C22_Step]_vars

\* a non-member was turned away with 4003 while a member is registered
C22_Witness ==
    \E t, m \in Handlers :
        /\ hist.code[t] = 4003 /\ kind[t] = "server"
        /\ Registered(m) /\ kind[m] = "server"

\* the text is malformed: no JSON, no object, an object without a string
\* type, or an object of a recognised type whose member is missing or of
\* the wrong type (to of a relay type, the flag of a state type)
Malformed(raw) ==
    \/ raw.json # "object"
    \/ raw.type \in {"absent", "nonstring"}
    \/ raw.type \in _RELAY_TYPES /\ ParseUuid(raw.to) = 0
    \/ raw.type = "mute" /\ ~BoolMember(raw, "is_muted")
    \/ raw.type = "deafen" /\ ~BoolMember(raw, "is_deafened")
    \/ raw.type \in {"screen_share", "webcam"} /\ ~BoolMember(raw, "enabled")

\* C23: a malformed text makes the body of every receive loop go on to the
\* next receive: it calls nothing, sends nothing, and the handler stays in
\* its loop.
C23_MalformedIgnored ==
    \A t \in Tasks :
        (hist.loop[t].h # "" /\ Malformed(hist.loop[t].raw))
            => (hist.loop[t].out = Continue /\ pc[t] = "l_in")

\* C24: voice_ws dispatches the messages of its connection: as long as the
\* participant of a voice_ws connection is in a voice room, its handler has
\* not ended, so that a text the client sends is passed through
\* VoiceLoopBody (relay for the types of _RELAY_TYPES, update_state for
\* those of _STATE_TYPES, nothing for any other type).
C24_VoiceDispatches ==
    \A t \in Tasks :
        (kind[t] = "voice_ws" /\ InSomeVoiceRoom(t)) => pc[t] \notin Ended

\* the member list connect sends to connection t
OwnMembers(t, m) == m[1] = "json" /\ m[2].type = "voice.members" /\ m[2].src = t

\* C30: whatever a voice connection holds, the first text is the
\* voice.members event of its own join: no event of another task's join,
\* leave, state update or relay comes before it.
C30_MembersFirst ==
    \A t \in Tasks :
        (kind[t] \in VoiceKinds /\ inbox[t] # << >>) => OwnMembers(t, inbox[t][1])

\* the joiner is still awaiting the send of its member list and already
\* holds, after the list, an event of another task
C30_Witness ==
    \E t \in Tasks :
        /\ pc[t] = "vc_members" /\ Len(inbox[t]) >= 2
        /\ OwnMembers(t, inbox[t][1])
        /\ inbox[t][2][2].src # t

\* the flags the room of channel c shows for user u
Shown(vr, pt, c, u) == pt[vr[c][u]]

\* a step changes a flag of participant object p only in an update_state
\* call of a task of p's user in p's room, and only the flags supplied; the
\* flags a room shows for a user change only in an update_state or a
\* connect of a task of that user in that room
C31_Step ==
    /\ \A p \in Tasks :
          part'[p] # part[p] =>
             \E t \in Tasks :
                /\ Calls(t, "update") /\ hist'.vcall[t].tgt = p
                /\ uid[t] = uid[p] /\ VChan(t) = VChan(p)
                /\ \A f \in DOMAIN part[p] :
                      part'[p][f] # part[p][f] => f \in DOMAIN hist'.vcall[t].arg
    /\ \A c \in DOMAIN vrooms \cap DOMAIN vrooms' :
          \A u \in DOMAIN vrooms[c] \cap DOMAIN vrooms'[c] :
             Shown(vrooms', part', c, u) # Shown(vrooms, part, c, u) =>
                \E t \in Tasks :
                   /\ uid[t] = u /\ VChan(t) = c
                   /\ \/ Calls(t, "update")
                      \/ hist'.vcall[t].op = "connect" /\ hist.vcall[t].op # "connect"

\* C31: the flags of a voice participant change only by an update_state of
\* that participant's own user in that room: no update, relay, join or
\* leave of a user A changes a flag of a participant of another user B.
C31_OwnFlagsOnly == [][C31_Step]_vars

\* user 2 is muted in a room where user 1, unmuted, made a call as well
C31_Witness ==
    \E a, b \in Tasks :
        /\ uid[a] # uid[b] /\ VChan(a) = VChan(b)
        /\ a \in Participants(VChan(a)) /\ b \in Participants(VChan(a))
        /\ part[b].is_muted /\ ~part[a].is_muted
        /\ hist.vcall[a].op \in {"update", "relay"}
        /\ hist.vcall[b].op = "update"

\* the statements of connect, disconnect and broadcast of either manager
CallPcs == {"c_accept", "c_lock", "c_add", "d_lock", "d_rm",
            "b_begin", "b_send", "b_prune", "b_prm", "b_ret",
            "vc_accept", "vc_lock", "vc_add", "vc_members", "vb_send", "vd_lock", "vd_rm"}
\* a lock is held only inside the critical section of its holder, never by
\* a task that is requesting it or that is suspended
C32_LockDiscipline ==
    \A t \in Tasks :
        /\ lock = t => (pc[t] \in {"c_add", "d_rm", "b_prm"} /\ running = t)
        /\ vlock = t => (pc[t] \in {"vc_add", "vd_rm"} /\ running = t)

\* C32: every call of connect, disconnect and broadcast of either manager
\* ends: a task inside such a call leaves it, the lock is held only inside a
\* critical section and is never requested by its holder.
C32_CallsTerminate ==
    /\ [](C32_LockDiscipline)
    /\ \A t \in Tasks : (pc[t] \in CallPcs) ~> (pc[t] \notin CallPcs)

\* a handler holds the lock for its join or its leave while a broadcast is
\* between two sends of its fan-out, with a dead connection to prune
C32_Witness ==
    \E t, u \in Tasks :
        /\ t # u /\ pc[t] = "b_send" /\ bc[t].dead # << >>
        /\ lock = u /\ pc[u] \in {"c_add", "d_rm"}

\* C33: when the broadcast of an update_state call has returned, the caller
\* has not failed, every participant it found whose transport is up holds
\* the voice.state_changed event, and every participant it found that does
\* not hold the event (its send failed) has been removed from the room.
C33_VoiceFailurePrunes ==
    \A t \in Tasks :
        (hist.vcall[t].op = "update" /\ pc[t] \in ConnectedPcs) =>
            LET c == hist.vcall[t]
            IN \A q \in c.snap :
                  /\ Live(q) => Received(q, "voice.state_changed", t, c.id) = 1
                  /\ Received(q, "voice.state_changed", t, c.id) = 0
                        => q \notin Participants(VChan(t))

\* C34: the stored status of every user is offline or the user's
\* preferred_status.
C34_StatusOfflineOrPreferred ==
    \A u \in Users : status[u] = "offline" \/ status[u] = preferred[u]

\* C35: while a connection of a user has completed connect and has not
\* started disconnect, the participant table of its room has an entry for
\* that user, bound to a connection of that user that is registered and
\* has not started disconnect either.
C35_EntryWhileConnected ==
    \A t \in Tasks :
        (kind[t] \in VoiceKinds /\ pc[t] = "v_in") =>
            /\ uid[t] \in InRoom(VChan(t))
            /\ LET p == vrooms[VChan(t)][uid[t]]
               IN /\ uid[p] = uid[t] /\ VChan(p) = VChan(t)
                  /\ reg[p] # {} /\ vdisc[p] = 0
                  /\ pc[p] \notin {"vd_lock", "vd_rm"} \cup Ended

\* connection a holds the member list of its own join with the user of b
InList(a, b) ==
    \E e \in Got(a, "voice.members", a, "") : \E d \in e.data : d.user_id = uid[b]
\* connection a has been told of b: in its member list or by b's join event
Told(a, b) == InList(a, b) \/ Received(a, "voice.user_joined", b, "") >= 1
\* a and b are connections of distinct users in one room, connect has
\* returned for both, neither has disconnected and both transports work
Met(a, b) ==
    /\ kind[a] = "vcaller" /\ kind[b] = "vcaller"
    /\ uid[a] # uid[b] /\ VChan(a) = VChan(b)
    /\ pc[a] = "v_in" /\ pc[b] = "v_in"
    /\ vdisc[a] = 0 /\ vdisc[b] = 0
    /\ Live(a) /\ Live(b)

\* C36: after concurrent connects of distinct users to one room, with
\* working transports and no disconnect, each participant has been told of
\* the other, in its voice.members list or in a voice.user_joined event.
C36_EveryoneTold ==
    \A a, b \in Tasks : Met(a, b) => (Told(a, b) /\ Told(b, a))

\* the two connects overlapped: b joined while a awaited the send of its
\* list, so b has a in its list and got a's join event as well
C36_Witness ==
    \E a, b \in Tasks :
        /\ Met(a, b)
        /\ ~InList(a, b) /\ Received(a, "voice.user_joined", b, "") = 1
        /\ InList(b, a) /\ Received(b, "voice.user_joined", a, "") = 1

\* C37: a connection that is a member of a channel room belongs to a user
\* who is a member of the server of that channel.
C37_ChannelRoomMembersOnly ==
    \A t \in Handlers : \A r \in DOMAIN rooms :
        (r[1] = "channel" /\ t \in rooms[r]) => ChannelServer(r[2]) \in MemberOf(uid[t])

\* the handlers that register in the personal room of user u
PersonalRoomHandlers(u) == {t \in Tasks : kind[t] \in {"personal", "bot"} /\ uid[t] = u}

\* C38: once every handler that was registered in a user's personal room
\* has returned and the room is empty, the stored status of the user is
\* offline, whichever handler removed the last connection.
C38_EmptyRoomOffline ==
    \A u \in Users :
        (/\ PersonalRoomHandlers(u) # {}
         /\ \A t \in PersonalRoomHandlers(u) : pc[t] = "done"
         /\ user_room(u) \notin DOMAIN rooms)
            => status[u] = "offline"

====
